---- MODULE Spec2Model ----
(***************************************************************************)
(* A model of the portfolio site's request handlers (src/app/main.py), of   *)
(* the files and services they use, and of the seeding script:              *)
(*   - static/data/contacts.json, rewritten by save_contact,                *)
(*   - static/data/projects.json, read by load_projects,                    *)
(*   - static/locales/en.json and pt.json, read by PDFService,              *)
(*   - EmailService (SMTP) and GitHubService (REST client),                 *)
(*   - scripts/seed_data.py and the three tables it fills.                  *)
(*                                                                          *)
(* Text is modelled as it is stored: a Python str is a sequence of Unicode  *)
(* code points, a file is a sequence of bytes (or Absent), and the JSON     *)
(* writer, the JSON reader and the UTF-8 codec are computed, so that what   *)
(* is read back is decided by what was written.                             *)
(***************************************************************************)
EXTENDS Integers, Sequences, FiniteSets, TLC

VARIABLES
    settings,        \* app.config.settings (fixed after start-up)
    email_service,   \* what main.email_service is bound to
    github_service,  \* what main.github_service is bound to
    contacts_file,   \* bytes of static/data/contacts.json, or Absent
    projects_file,   \* bytes of static/data/projects.json, or Absent
    locale_files,    \* bytes of static/locales/en.json and pt.json, or Absent
    database,        \* committed rows of the projects, skills and experiences tables
    inflight,        \* the requests and calls being handled concurrently
    outbox,          \* messages the SMTP server accepted, in order
    calls,           \* calls made by the last handled request, in order
    request,         \* the last request handled
    response,        \* the answer to it
    last_save        \* the last save_contact call: arguments, file before, outcome

vars == << settings, email_service, github_service, contacts_file, projects_file,
          locale_files, database, inflight,
           outbox, calls, request, response, last_save >>

----------------------------------------------------------------------------
(* Bounds of the model *)

\* the contacts log is followed up to this many records
MaxContacts == 2

\* messages accepted by the SMTP server in the direct calls of EmailService
MaxOutbox == 2

\* GET /projects requests in flight at the same time
MaxInflight == 2

\* rows of each sample list of seed_data.py that are followed
MaxSampleRows == 2

----------------------------------------------------------------------------
(* Python values *)

\* A Python value is tagged with its type: str (code points), None, list, dict
\* (key/value pairs in insertion order), int and bool.
PyStr(s)  == [kind |-> "str",  val |-> s]
PyNone    == [kind |-> "null", val |-> << >>]
PyList(x) == [kind |-> "arr",  val |-> x]
PyDict(p) == [kind |-> "obj",  val |-> p]
PyInt(n)  == [kind |-> "int",  val |-> << n >>]
PyBool(b) == [kind |-> "bool", val |-> << b >>]

KV(k, v) == [key |-> k, value |-> v]

\* a missing file
Absent == << -1 >>

\* what a handler answers: status, template rendered and its context
Response(status, template, error, projects, search) ==
    [status |-> status, template |-> template, error |-> error,
     projects |-> projects, search |-> search]

\* code points of the characters the model writes
Chr == [quote |-> 34, backslash |-> 92, slash |-> 47, comma |-> 44, colon |-> 58,
        lbracket |-> 91, rbracket |-> 93, lbrace |-> 123, rbrace |-> 125,
        space |-> 32, tab |-> 9, nl |-> 10, cr |-> 13, bs |-> 8, ff |-> 12,
        b |-> 98, f |-> 102, n |-> 110, r |-> 114, t |-> 116, u |-> 117,
        l |-> 108, zero |-> 48, a |-> 97]

\* "name", "email", "message"
K_name    == << 110, 97, 109, 101 >>
K_email   == << 101, 109, 97, 105, 108 >>
K_message == << 109, 101, 115, 115, 97, 103, 101 >>

\* Truthiness of a Python value (None, "", [], {} and 0 are false).
Truthy(v) ==
    CASE v.kind = "null" -> FALSE
      [] v.kind = "int"  -> v.val[1] # 0
      [] v.kind = "bool" -> v.val[1]
      [] OTHER           -> Len(v.val) > 0

\* d[key] of a dict given as pairs, for a key that is present
RECURSIVE DictAt(_, _, _)
DictAt(pairs, key, i) ==
    IF pairs[i].key = key THEN pairs[i].value ELSE DictAt(pairs, key, i + 1)

DictHas(d, key) == \E i \in 1..Len(d.val) : d.val[i].key = key

\* dict.get(key, default)
DictGet(d, key, default) ==
    IF DictHas(d, key) THEN DictAt(d.val, key, 1) ELSE default

\* d[key] = value on the pairs of a dict: a present key keeps its place
DictSet(pairs, key, value) ==
    IF \E i \in 1..Len(pairs) : pairs[i].key = key
    THEN [i \in 1..Len(pairs) |->
             IF pairs[i].key = key THEN KV(key, value) ELSE pairs[i]]
    ELSE Append(pairs, KV(key, value))

----------------------------------------------------------------------------
(* UTF-8, the encoding both files are opened with *)

\* the bytes of one code point (code points below 65536)
EncodeCodePoint(c) ==
    IF c < 128 THEN << c >>
    ELSE IF c < 2048 THEN << 192 + (c \div 64), 128 + (c % 64) >>
    ELSE << 224 + (c \div 4096), 128 + ((c \div 64) % 64), 128 + (c % 64) >>

\* The encoding of a text is the concatenation of the encodings of its code
\* points; it is computed by halves to keep the evaluation shallow.
RECURSIVE Utf8Encode(_)
Utf8Encode(s) ==
    IF Len(s) = 0 THEN << >>
    ELSE IF Len(s) = 1 THEN EncodeCodePoint(s[1])
    ELSE LET h == Len(s) \div 2 IN
         Utf8Encode(SubSeq(s, 1, h)) \o Utf8Encode(SubSeq(s, h + 1, Len(s)))

IsCont(bytes, i) == i <= Len(bytes) /\ bytes[i] >= 128 /\ bytes[i] < 192

DecodeError == [ok |-> FALSE, val |-> << >>]

\* bytes[i..hi] decoded one sequence after the other (strict: no overlong
\* forms, no stray continuation bytes)
RECURSIVE Utf8DecodeFrom(_, _, _, _)
Utf8DecodeFrom(bytes, i, hi, acc) ==
    IF i > hi THEN [ok |-> TRUE, val |-> acc]
    ELSE LET b == bytes[i] IN
         IF b < 128 THEN Utf8DecodeFrom(bytes, i + 1, hi, Append(acc, b))
         ELSE IF b >= 194 /\ b < 224 /\ i + 1 <= hi /\ IsCont(bytes, i + 1)
         THEN Utf8DecodeFrom(bytes, i + 2, hi,
                  Append(acc, (b - 192) * 64 + (bytes[i + 1] - 128)))
         ELSE IF b >= 224 /\ b < 240 /\ i + 2 <= hi
                 /\ IsCont(bytes, i + 1) /\ IsCont(bytes, i + 2)
                 /\ (b - 224) * 4096 + (bytes[i + 1] - 128) * 64 >= 2048
         THEN Utf8DecodeFrom(bytes, i + 3, hi,
                  Append(acc, (b - 224) * 4096 + (bytes[i + 1] - 128) * 64
                              + (bytes[i + 2] - 128)))
         ELSE DecodeError

\* bytes[lo..hi] decoded. A long range is cut at a byte that starts a sequence
\* (one of three neighbouring bytes must) and the two parts are decoded apart,
\* which gives the result of decoding from left to right.

DecodeJoin(left, right) ==
    IF left.ok /\ right.ok THEN [ok |-> TRUE, val |-> left.val \o right.val]
    ELSE DecodeError

\* the first of the bytes i, i+1, i+2 that starts a sequence (0 if none does)
SequenceStart(bytes, i) ==
    IF ~IsCont(bytes, i) THEN i
    ELSE IF ~IsCont(bytes, i + 1) THEN i + 1
    ELSE IF ~IsCont(bytes, i + 2) THEN i + 2
    ELSE 0

RECURSIVE Utf8DecodeRange(_, _, _)
RECURSIVE Utf8DecodeSplit(_, _, _, _)
Utf8DecodeSplit(bytes, lo, hi, m) ==
    IF m = 0 THEN DecodeError
    ELSE DecodeJoin(Utf8DecodeRange(bytes, lo, m - 1), Utf8DecodeRange(bytes, m, hi))

Utf8DecodeRange(bytes, lo, hi) ==
    IF hi - lo < 8 THEN Utf8DecodeFrom(bytes, lo, hi, << >>)
    ELSE Utf8DecodeSplit(bytes, lo, hi, SequenceStart(bytes, (lo + hi) \div 2))

\* [ok, val]: the decoded code points, or ok = FALSE for a UnicodeDecodeError
Utf8Decode(bytes) == Utf8DecodeRange(bytes, 1, Len(bytes))

----------------------------------------------------------------------------
(* json.dump(obj, f, ensure_ascii=False, indent=2) *)

HexDigit(d) == IF d < 10 THEN 48 + d ELSE 87 + d

\* (variant) a character written as it is, with no escaping
EscapeChar_raw(c) == << c >>

\* one character of a string, as the encoder writes it with ensure_ascii=False
EscapeChar(c) ==
    CASE c = Chr.quote     -> << Chr.backslash, Chr.quote >>
      [] c = Chr.backslash -> << Chr.backslash, Chr.backslash >>
      [] c = Chr.nl        -> << Chr.backslash, Chr.n >>
      [] c = Chr.cr        -> << Chr.backslash, Chr.r >>
      [] c = Chr.tab       -> << Chr.backslash, Chr.t >>
      [] c = Chr.bs        -> << Chr.backslash, Chr.b >>
      [] c = Chr.ff        -> << Chr.backslash, Chr.f >>
      [] c < 32            -> << Chr.backslash, Chr.u, Chr.zero, Chr.zero,
                                 HexDigit(c \div 16), HexDigit(c % 16) >>
      [] OTHER             -> << c >>

RECURSIVE EscapeChars(_)
EscapeChars(s) ==
    IF s = << >> THEN << >> ELSE EscapeChar(Head(s)) \o EscapeChars(Tail(s))

JsonString(s) == << Chr.quote >> \o EscapeChars(s) \o << Chr.quote >>

\* a newline followed by the indentation of a nesting level (2 spaces each)
Indent(level) == << Chr.nl >> \o [i \in 1..(2 * level) |-> Chr.space]

RECURSIVE JsonDumps(_, _)
RECURSIVE DumpItems(_, _, _)
RECURSIVE DumpPairs(_, _, _)
DumpItems(xs, i, level) ==
    IF i > Len(xs) THEN << >>
    ELSE (IF i > 1 THEN << Chr.comma >> ELSE << >>) \o Indent(level)
         \o JsonDumps(xs[i], level) \o DumpItems(xs, i + 1, level)

DumpPairs(ps, i, level) ==
    IF i > Len(ps) THEN << >>
    ELSE (IF i > 1 THEN << Chr.comma >> ELSE << >>) \o Indent(level)
         \o JsonString(ps[i].key) \o << Chr.colon, Chr.space >>
         \o JsonDumps(ps[i].value, level) \o DumpPairs(ps, i + 1, level)

\* the text written for a value nested at the given level
JsonDumps(v, level) ==
    CASE v.kind = "str"  -> JsonString(v.val)
      [] v.kind = "null" -> << Chr.n, Chr.u, Chr.l, Chr.l >>
      [] v.kind = "arr"  ->
            IF v.val = << >> THEN << Chr.lbracket, Chr.rbracket >>
            ELSE << Chr.lbracket >> \o DumpItems(v.val, 1, level + 1)
                 \o Indent(level) \o << Chr.rbracket >>
      [] v.kind = "obj"  ->
            IF v.val = << >> THEN << Chr.lbrace, Chr.rbrace >>
            ELSE << Chr.lbrace >> \o DumpPairs(v.val, 1, level + 1)
                 \o Indent(level) \o << Chr.rbrace >>

----------------------------------------------------------------------------
(* json.load(f) *)

Fail(i) == [ok |-> FALSE, val |-> PyNone, pos |-> i]
Ok(v, i) == [ok |-> TRUE, val |-> v, pos |-> i]

IsWs(c) == c \in {Chr.space, Chr.tab, Chr.nl, Chr.cr}

RECURSIVE SkipWs(_, _)
SkipWs(t, i) == IF i <= Len(t) /\ IsWs(t[i]) THEN SkipWs(t, i + 1) ELSE i

At(t, i, c) == i <= Len(t) /\ t[i] = c

HexValue(c) ==
    IF c >= 48 /\ c <= 57 THEN c - 48
    ELSE IF c >= 97 /\ c <= 102 THEN c - 87
    ELSE IF c >= 65 /\ c <= 70 THEN c - 55
    ELSE -1

\* the body of a string literal, from the character after the opening quote
RECURSIVE ScanString(_, _, _)
ScanString(t, j, acc) ==
    IF j > Len(t) THEN Fail(j)
    ELSE IF t[j] = Chr.quote THEN Ok(PyStr(acc), j + 1)
    ELSE IF t[j] = Chr.backslash THEN
        IF j + 1 > Len(t) THEN Fail(j)
        ELSE LET e == t[j + 1] IN
             IF e \in {Chr.quote, Chr.backslash, Chr.slash}
             THEN ScanString(t, j + 2, Append(acc, e))
             ELSE IF e = Chr.n THEN ScanString(t, j + 2, Append(acc, Chr.nl))
             ELSE IF e = Chr.r THEN ScanString(t, j + 2, Append(acc, Chr.cr))
             ELSE IF e = Chr.t THEN ScanString(t, j + 2, Append(acc, Chr.tab))
             ELSE IF e = Chr.b THEN ScanString(t, j + 2, Append(acc, Chr.bs))
             ELSE IF e = Chr.f THEN ScanString(t, j + 2, Append(acc, Chr.ff))
             ELSE IF e = Chr.u /\ j + 5 <= Len(t)
                     /\ \A k \in 2..5 : HexValue(t[j + k]) >= 0
             THEN ScanString(t, j + 6,
                      Append(acc, HexValue(t[j + 2]) * 4096 + HexValue(t[j + 3]) * 256
                                  + HexValue(t[j + 4]) * 16 + HexValue(t[j + 5])))
             ELSE Fail(j)
    ELSE IF t[j] < 32 THEN Fail(j)
    ELSE ScanString(t, j + 1, Append(acc, t[j]))

RECURSIVE ParseValue(_, _)
RECURSIVE ParseItems(_, _, _)
RECURSIVE ParsePairs(_, _, _)

\* after the items acc, at t[k]: a comma and more items, or the closing bracket
ItemsNext(t, acc, k) ==
    IF At(t, k, Chr.comma) THEN ParseItems(t, SkipWs(t, k + 1), acc)
    ELSE IF At(t, k, Chr.rbracket) THEN Ok(PyList(acc), k + 1)
    ELSE Fail(k)

ItemParsed(t, i, acc, v) ==
    IF ~v.ok THEN Fail(i) ELSE ItemsNext(t, Append(acc, v.val), SkipWs(t, v.pos))

\* the items of a non-empty array, from the first character of an item
ParseItems(t, i, acc) == ItemParsed(t, i, acc, ParseValue(t, i))

\* after the pairs acc, at t[k]: a comma and more pairs, or the closing brace
PairsNext(t, acc, k) ==
    IF At(t, k, Chr.comma) THEN ParsePairs(t, SkipWs(t, k + 1), acc)
    ELSE IF At(t, k, Chr.rbrace) THEN Ok(PyDict(acc), k + 1)
    ELSE Fail(k)

PairParsed(t, i, acc, key, v) ==
    IF ~v.ok THEN Fail(i)
    ELSE PairsNext(t, DictSet(acc, key, v.val), SkipWs(t, v.pos))

\* after a key, at t[c]: the colon and the value
KeyParsed(t, i, acc, key, c) ==
    IF ~At(t, c, Chr.colon) THEN Fail(i)
    ELSE PairParsed(t, i, acc, key, ParseValue(t, SkipWs(t, c + 1)))

KeyScanned(t, i, acc, key) ==
    IF ~key.ok THEN Fail(i)
    ELSE KeyParsed(t, i, acc, key.val.val, SkipWs(t, key.pos))

\* the pairs of a non-empty object, from the opening quote of a key
ParsePairs(t, i, acc) ==
    IF ~At(t, i, Chr.quote) THEN Fail(i)
    ELSE KeyScanned(t, i, acc, ScanString(t, i + 1, << >>))

ArrayFrom(t, j) ==
    IF At(t, j, Chr.rbracket) THEN Ok(PyList(<< >>), j + 1)
    ELSE ParseItems(t, j, << >>)

ObjectFrom(t, j) ==
    IF At(t, j, Chr.rbrace) THEN Ok(PyDict(<< >>), j + 1)
    ELSE ParsePairs(t, j, << >>)

\* one JSON value starting at t[i]
ParseValue(t, i) ==
    IF i > Len(t) THEN Fail(i)
    ELSE IF t[i] = Chr.quote THEN ScanString(t, i + 1, << >>)
    ELSE IF t[i] = Chr.lbracket THEN ArrayFrom(t, SkipWs(t, i + 1))
    ELSE IF t[i] = Chr.lbrace THEN ObjectFrom(t, SkipWs(t, i + 1))
    ELSE IF i + 3 <= Len(t) /\ SubSeq(t, i, i + 3) = << Chr.n, Chr.u, Chr.l, Chr.l >>
    THEN Ok(PyNone, i + 4)
    ELSE Fail(i)

ValueParsed(t, v) ==
    IF v.ok /\ SkipWs(t, v.pos) > Len(t) THEN [ok |-> TRUE, val |-> v.val]
    ELSE [ok |-> FALSE, val |-> PyNone]

\* json.loads: one value with nothing but white space around it
JsonLoads(t) == ValueParsed(t, ParseValue(t, SkipWs(t, 1)))

TextLoaded(text) ==
    IF text.ok THEN JsonLoads(text.val) ELSE [ok |-> FALSE, val |-> PyNone]

\* with path.open("r", encoding="utf-8") as f: json.load(f)
\* [ok, val]: ok = FALSE when decoding or parsing raises
JsonLoadFile(bytes) == TextLoaded(Utf8Decode(bytes))

\* the bytes json.dump(obj, f, ensure_ascii=False, indent=2) leaves in a file
\* opened with encoding="utf-8"
JsonDumpFile(v) == Utf8Encode(JsonDumps(v, 0))

----------------------------------------------------------------------------
(* src/app/local_data.py: save_contact *)

\* the dict save_contact appends
ContactRecord(name, email, message) ==
    PyDict(<< KV(K_name, PyStr(name)), KV(K_email, PyStr(email)),
              KV(K_message, PyStr(message)) >>)

\* What the file system does to one save_contact call: nothing, or an OSError
\* raised by mkdir, by opening for reading, by opening for writing (before the
\* file is truncated), by the first write (the file is left empty) or part-way
\* through the writes (the file is left with half of the text).
IOFaults == {"none", "mkdir", "open_r", "open_w", "truncated", "partial"}

\* (variant) the new record replaces the list instead of joining it
ListAppend_overwrite(contacts, record) == PyList(<< record >>)

\* contacts.append(record): a list grows by the record at its end
ListAppend(contacts, record) == PyList(Append(contacts.val, record))

Raised(file, err) == [file |-> file, raised |-> TRUE, error |-> err]

\* lines 24-25: the file is opened for writing, which empties it, and the new
\* array is written
WriteContacts(file, text, io) ==
    IF io = "open_w" THEN Raised(file, "OSError")
    ELSE IF io = "truncated" THEN Raised(<< >>, "OSError")
    ELSE IF io = "partial" THEN Raised(SubSeq(text, 1, Len(text) \div 2), "OSError")
    ELSE [file |-> text, raised |-> FALSE, error |-> ""]

\* lines 22-25, with what json.load gave
AppendContact(file, loaded, record, io) ==
    IF ~loaded.ok THEN Raised(file, "JSONDecodeError")
    ELSE IF loaded.val.kind # "arr" THEN Raised(file, "AttributeError")
    ELSE WriteContacts(file, JsonDumpFile(ListAppend(loaded.val, record)), io)

\* lines 19-22: the empty list, or what the existing file holds
LoadContacts(file) ==
    IF file = Absent THEN [ok |-> TRUE, val |-> PyList(<< >>)]
    ELSE JsonLoadFile(file)

\* save_contact(name, email, message) on a contacts file, under a fault:
\* [file, raised, error] is the file left behind and the exception, if any.
save_contact(file, name, email, message, io) ==
    IF io = "mkdir" THEN Raised(file, "OSError")
    ELSE IF file # Absent /\ io = "open_r" THEN Raised(file, "OSError")
    ELSE AppendContact(file, LoadContacts(file),
                       ContactRecord(name, email, message), io)

ContactsLoaded(loaded) ==
    IF loaded.ok /\ loaded.val.kind = "arr" THEN Len(loaded.val.val) ELSE 0

\* the number of records in a readable contacts file (0 for any other file)
NumContacts(file) ==
    IF file = Absent THEN 0 ELSE ContactsLoaded(JsonLoadFile(file))

NoSave == [called |-> FALSE, args |-> << >>, before |-> Absent, raised |-> FALSE]

SaveRecord(name, email, message, before, result) ==
    [called |-> TRUE, args |-> << name, email, message >>, before |-> before,
     raised |-> result.raised]

\* "Al", "a@b", "hi", and a message with a quote, a backslash, a newline,
\* e-acute and a CJK character
S_Al    == << 65, 108 >>
S_addr  == << 97, 64, 98 >>
S_hi    == << 104, 105 >>
S_mixed == << 233, 34, 92, 10, 20013 >>

\* the argument triples of the direct calls
SaveInputs ==
    { << << >>, << >>, << >> >>,
      << S_Al, S_addr, S_hi >>,
      << S_Al, S_addr, S_mixed >> }

\* a direct call save_contact(name, email, message)
SaveContactCall(name, email, message, io) ==
    \E result \in {save_contact(contacts_file, name, email, message, io)} :
       /\ contacts_file' = result.file
       /\ last_save' = SaveRecord(name, email, message, contacts_file, result)
       /\ UNCHANGED << settings, email_service, github_service, projects_file, locale_files, database, inflight,
                       outbox, calls, request, response >>

----------------------------------------------------------------------------
(* src/app/services/email.py: EmailService *)

\* str.lower() on the letters the model uses (ASCII and Latin-1)
LowerChar(c) ==
    IF (c >= 65 /\ c <= 90) \/ (c >= 192 /\ c <= 222 /\ c # 215) THEN c + 32 ELSE c

Lower(s) == [i \in 1..Len(s) |-> LowerChar(s[i])]

\* "mailhog", "localhost", "noreply@localhost"
S_mailhog   == << 109, 97, 105, 108, 104, 111, 103 >>
S_localhost == << 108, 111, 99, 97, 108, 104, 111, 115, 116 >>
S_noreply   == << 110, 111, 114, 101, 112, 108, 121, 64 >> \o S_localhost

\* (variant) the port is not looked at
is_mailhog_any_port(cfg) == Lower(cfg.smtp_host) \in {S_mailhog, S_localhost}

\* EmailService._is_mailhog
is_mailhog(cfg) ==
    Lower(cfg.smtp_host) \in {S_mailhog, S_localhost} /\ cfg.smtp_port = 1025

\* What the SMTP server does to one connection: nothing, or an exception raised
\* by the named call.
SMTPFaults == {"none", "connect", "starttls", "login", "sendmail", "quit"}

\* EmailService._create_smtp_connection: the SMTP calls made, in order, and
\* whether one of them raised
create_smtp_connection(cfg, fault) ==
    LET tls   == ~is_mailhog(cfg)
        login == tls /\ Truthy(cfg.smtp_username) /\ Truthy(cfg.smtp_password)
    IN  IF fault = "connect" THEN [ops |-> << "connect" >>, raised |-> TRUE]
        ELSE IF tls /\ fault = "starttls"
        THEN [ops |-> << "connect", "starttls" >>, raised |-> TRUE]
        ELSE IF login
        THEN [ops |-> << "connect", "starttls", "login" >>,
              raised |-> fault = "login"]
        ELSE [ops |-> << "connect" >> \o (IF tls THEN << "starttls" >> ELSE << >>),
              raised |-> FALSE]

\* the message handed to sendmail: envelope, subject and body fields
ContactMessage(cfg, name, email, message) ==
    [mail_from |-> IF Truthy(cfg.smtp_username) THEN cfg.smtp_username.val
                   ELSE S_noreply,
     rcpt_to |-> cfg.contact_email.val,
     subject_name |-> name,
     name |-> name, email |-> email, message |-> message]

\* (variant) True is returned once sendmail has returned
SendOver_before_quit(conn, msg, fault) ==
    IF conn.raised THEN [result |-> FALSE, ops |-> conn.ops, sent |-> << >>]
    ELSE IF fault = "sendmail"
    THEN [result |-> FALSE, ops |-> Append(conn.ops, "sendmail"), sent |-> << >>]
    ELSE [result |-> TRUE, ops |-> conn.ops \o << "sendmail", "quit" >>,
          sent |-> << msg >>]

\* lines 70-76, with the connection made: sendmail, quit, return True
SendOver(conn, msg, fault) ==
    IF conn.raised THEN [result |-> FALSE, ops |-> conn.ops, sent |-> << >>]
    ELSE IF fault = "sendmail"
    THEN [result |-> FALSE, ops |-> Append(conn.ops, "sendmail"), sent |-> << >>]
    ELSE [result |-> fault # "quit", ops |-> conn.ops \o << "sendmail", "quit" >>,
          sent |-> << msg >>]

\* EmailService.send_contact_email: [result, ops, sent] is the value returned,
\* the SMTP calls made and the messages the server accepted
send_contact_email(cfg, name, email, message, fault) ==
    IF ~is_mailhog(cfg)
       /\ ~(Truthy(cfg.smtp_username) /\ Truthy(cfg.smtp_password)
            /\ Truthy(cfg.contact_email))
    THEN [result |-> FALSE, ops |-> << >>, sent |-> << >>]
    ELSE IF ~Truthy(cfg.contact_email)
    THEN [result |-> FALSE, ops |-> << >>, sent |-> << >>]
    ELSE SendOver(create_smtp_connection(cfg, fault),
                  ContactMessage(cfg, name, email, message), fault)

\* the message send_notification_email hands to sendmail
NotificationMessage(cfg, subject, content) ==
    [mail_from |-> IF Truthy(cfg.smtp_username) THEN cfg.smtp_username.val
                   ELSE S_noreply,
     rcpt_to |-> cfg.contact_email.val,
     subject |-> subject, content |-> content]

\* EmailService.send_notification_email: the same checks, connection and
\* sending as send_contact_email, with the subject and the text given
send_notification_email(cfg, subject, content, fault) ==
    IF ~is_mailhog(cfg)
       /\ ~(Truthy(cfg.smtp_username) /\ Truthy(cfg.smtp_password)
            /\ Truthy(cfg.contact_email))
    THEN [result |-> FALSE, ops |-> << >>, sent |-> << >>]
    ELSE IF ~Truthy(cfg.contact_email)
    THEN [result |-> FALSE, ops |-> << >>, sent |-> << >>]
    ELSE SendOver(create_smtp_connection(cfg, fault),
                  NotificationMessage(cfg, subject, content), fault)

----------------------------------------------------------------------------
(* src/app/main.py: POST /contact *)

\* a form field that the request does not carry
Missing == << -2 >>

\* a call a handler made: a returned value is kept in value, and outcome is
\* "raised" for a call that raised
Call(fn, args, outcome) ==
    [fn |-> fn, args |-> args, outcome |-> outcome, value |-> PyNone]

Returned(fn, args, value) ==
    [fn |-> fn, args |-> args, outcome |-> "returned", value |-> value]

SmtpCalls(ops) == [i \in 1..Len(ops) |-> Call(ops[i], << >>, "smtp")]

\* (variant) only the name is required
FormComplete_name_only(form) == form.name # Missing

\* Form(...): the three fields are required
FormComplete(form) ==
    form.name # Missing /\ form.email # Missing /\ form.message # Missing

ContactError(text) ==
    Response(200, "components/contact_error.html", text, << >>, << >>)

ContactSuccess ==
    Response(200, "components/contact_success.html", "", << >>, << >>)

\* (variant) the e-mail is sent first and the submission saved afterwards
SubmitOutcome_email_first(service, args, saved, mail) ==
    IF service = "RaisingStub"
    THEN [file |-> saved.file, sent |-> << >>, save |-> saved,
          calls |-> << Call("send_contact_email", args, "raised") >>,
          response |-> ContactError("Email service error")]
    ELSE [file |-> saved.file, sent |-> mail.sent, save |-> saved,
          calls |-> << Call("send_contact_email", args,
                            IF mail.result THEN "True" ELSE "False") >>
                    \o SmtpCalls(mail.ops)
                    \o << Call("save_contact", args,
                               IF saved.raised THEN "raised" ELSE "None") >>,
          response |-> IF saved.raised THEN ContactError(saved.error)
                       ELSE ContactSuccess]

\* (variant) the e-mail is sent whether or not the submission was saved
SubmitOutcome_send_unsaved(service, args, saved, mail) ==
    IF service = "RaisingStub"
    THEN [file |-> saved.file, sent |-> << >>, save |-> saved,
          calls |-> << Call("save_contact", args,
                            IF saved.raised THEN "raised" ELSE "None"),
                       Call("send_contact_email", args, "raised") >>,
          response |-> ContactError("Email service error")]
    ELSE [file |-> saved.file, sent |-> mail.sent, save |-> saved,
          calls |-> << Call("save_contact", args,
                            IF saved.raised THEN "raised" ELSE "None"),
                       Call("send_contact_email", args,
                            IF mail.result THEN "True" ELSE "False") >>
                    \o SmtpCalls(mail.ops),
          response |-> IF saved.raised THEN ContactError(saved.error)
                       ELSE ContactSuccess]

\* (variant) an exception of the e-mail service is not caught
SubmitOutcome_uncaught(service, args, saved, mail) ==
    IF saved.raised
    THEN [file |-> saved.file, sent |-> << >>, save |-> saved,
          calls |-> << Call("save_contact", args, "raised") >>,
          response |-> ContactError(saved.error)]
    ELSE IF service = "RaisingStub"
    THEN [file |-> saved.file, sent |-> << >>, save |-> saved,
          calls |-> << Call("save_contact", args, "None"),
                       Call("send_contact_email", args, "raised") >>,
          response |-> Response(500, "", "Internal Server Error", << >>, << >>)]
    ELSE [file |-> saved.file, sent |-> mail.sent, save |-> saved,
          calls |-> << Call("save_contact", args, "None"),
                       Call("send_contact_email", args,
                            IF mail.result THEN "True" ELSE "False") >>
                    \o SmtpCalls(mail.ops),
          response |-> ContactSuccess]

\* lines 99-113, with the outcome of save_contact and, when it is reached,
\* that of the e-mail service
SubmitOutcome(service, args, saved, mail) ==
    IF saved.raised
    THEN [file |-> saved.file, sent |-> << >>, save |-> saved,
          calls |-> << Call("save_contact", args, "raised") >>,
          response |-> ContactError(saved.error)]
    ELSE IF service = "RaisingStub"
    THEN [file |-> saved.file, sent |-> << >>, save |-> saved,
          calls |-> << Call("save_contact", args, "None"),
                       Call("send_contact_email", args, "raised") >>,
          response |-> ContactError("Email service error")]
    ELSE [file |-> saved.file, sent |-> mail.sent, save |-> saved,
          calls |-> << Call("save_contact", args, "None"),
                       Call("send_contact_email", args,
                            IF mail.result THEN "True" ELSE "False") >>
                    \o SmtpCalls(mail.ops),
          response |-> ContactSuccess]

\* contact_submit on a complete form: the file left behind, the messages sent,
\* the calls made and the response
contact_submit(file, cfg, service, form, io, fault) ==
    SubmitOutcome(service, << form.name, form.email, form.message >>,
        save_contact(file, form.name, form.email, form.message, io),
        send_contact_email(cfg, form.name, form.email, form.message, fault))

\* POST /contact
ContactSubmit(form, io, fault) ==
    /\ request' = [route |-> "POST /contact", form |-> form]
    /\ IF ~FormComplete(form)
       THEN /\ response' = Response(422, "", "Field required", << >>, << >>)
            /\ calls' = << >>
            /\ UNCHANGED << contacts_file, outbox, last_save >>
       ELSE \E done \in {contact_submit(contacts_file, settings, email_service,
                                         form, io, fault)} :
                /\ contacts_file' = done.file
                /\ outbox' = outbox \o done.sent
                /\ calls' = done.calls
                /\ response' = done.response
                /\ last_save' = SaveRecord(form.name, form.email, form.message,
                                           contacts_file, done.save)
    /\ UNCHANGED << settings, email_service, github_service, projects_file, locale_files, database, inflight >>

----------------------------------------------------------------------------
(* src/app/services/github.py: GitHubService *)

\* keys of the API's repository objects and of the project records
K_description == << 100, 101, 115, 99, 114, 105, 112, 116, 105, 111, 110 >>
K_html_url    == << 104, 116, 109, 108, 95, 117, 114, 108 >>
K_homepage    == << 104, 111, 109, 101, 112, 97, 103, 101 >>
K_language    == << 108, 97, 110, 103, 117, 97, 103, 101 >>
K_topics      == << 116, 111, 112, 105, 99, 115 >>
K_stars_count == << 115, 116, 97, 114, 103, 97, 122, 101, 114, 115, 95, 99, 111, 117, 110, 116 >>
K_updated_at  == << 117, 112, 100, 97, 116, 101, 100, 95, 97, 116 >>
K_fork        == << 102, 111, 114, 107 >>
K_github_url  == << 103, 105, 116, 104, 117, 98, 95, 117, 114, 108 >>
K_demo_url    == << 100, 101, 109, 111, 95, 117, 114, 108 >>
K_technologies == << 116, 101, 99, 104, 110, 111, 108, 111, 103, 105, 101, 115 >>
K_stars       == << 115, 116, 97, 114, 115 >>
K_source      == << 115, 111, 117, 114, 99, 101 >>
S_github      == << 103, 105, 116, 104, 117, 98 >>
S_sep         == << 44, 32 >>

\* ", ".join(techs)
RECURSIVE Join(_, _)
Join(sep, strs) ==
    IF Len(strs) = 0 THEN << >>
    ELSE IF Len(strs) = 1 THEN strs[1].val
    ELSE strs[1].val \o sep \o Join(sep, Tail(strs))

\* (variant) the topics come before the language
extract_technologies_topics_first(repo) ==
    Join(S_sep,
         (IF Truthy(DictGet(repo, K_topics, PyNone))
          THEN DictGet(repo, K_topics, PyNone).val ELSE << >>)
         \o (IF Truthy(DictGet(repo, K_language, PyNone))
             THEN << DictGet(repo, K_language, PyNone) >> ELSE << >>))

\* GitHubService._extract_technologies
extract_technologies(repo) ==
    Join(S_sep,
         (IF Truthy(DictGet(repo, K_language, PyNone))
          THEN << DictGet(repo, K_language, PyNone) >> ELSE << >>)
         \o (IF Truthy(DictGet(repo, K_topics, PyNone))
             THEN DictGet(repo, K_topics, PyNone).val ELSE << >>))

\* lines 46-56: the record made of one repository of the response
FormatRepo(repo) ==
    PyDict(<< KV(K_name, DictGet(repo, K_name, PyNone)),
              KV(K_description, DictGet(repo, K_description, PyStr(<< >>))),
              KV(K_github_url, DictGet(repo, K_html_url, PyNone)),
              KV(K_demo_url, IF Truthy(DictGet(repo, K_homepage, PyNone))
                             THEN DictGet(repo, K_homepage, PyNone) ELSE PyNone),
              KV(K_technologies, PyStr(extract_technologies(repo))),
              KV(K_stars, DictGet(repo, K_stars_count, PyInt(0))),
              KV(K_language, DictGet(repo, K_language, PyStr(<< >>))),
              KV(K_updated_at, DictGet(repo, K_updated_at, PyStr(<< >>))),
              KV(K_source, PyStr(S_github)) >>)

\* (variant) no repository is taken for a fork
IsFork_never(repo) == FALSE

\* line 43: repo.get("fork", False)
IsFork(repo) == Truthy(DictGet(repo, K_fork, PyBool(FALSE)))

\* lines 41-57: the repositories that are not forks, formatted, in order
RECURSIVE FormatRepos(_)
FormatRepos(repos) ==
    IF repos = << >> THEN << >>
    ELSE (IF IsFork(Head(repos)) THEN << >> ELSE << FormatRepo(Head(repos)) >>)
         \o FormatRepos(Tail(repos))

\* repo["name"] or repo["html_url"] raises KeyError for a repository kept
LacksKey(repos) ==
    \E i \in 1..Len(repos) :
        /\ ~IsFork(repos[i])
        /\ ~DictHas(repos[i], K_name) \/ ~DictHas(repos[i], K_html_url)

\* lines 24-59, the body of the try, given what the API answers: [ok, repos],
\* ok = FALSE for a failed request or an error status
TryFetch(api) ==
    IF ~api.ok THEN [raised |-> TRUE, val |-> << >>]
    ELSE IF LacksKey(api.repos) THEN [raised |-> TRUE, val |-> << >>]
    ELSE [raised |-> FALSE, val |-> FormatRepos(api.repos)]

\* (variant) the exception is let through
CatchAll_uncaught(attempt) == attempt

\* lines 61-63: except Exception gives the empty list
CatchAll(attempt) ==
    IF attempt.raised THEN [raised |-> FALSE, val |-> << >>] ELSE attempt

\* lines 19-34: the one request made, with the Authorization header when a
\* token is configured
ApiRequest(cfg, limit) ==
    [user |-> cfg.github_username.val, per_page |-> limit,
     authorization |-> IF Truthy(cfg.github_token)
                       THEN << 116, 111, 107, 101, 110, 32 >> \o cfg.github_token.val
                       ELSE << >>]

\* GitHubService.get_repositories(limit): [raised, val, requests]
get_repositories(cfg, limit, api) ==
    IF ~Truthy(cfg.github_username)
    THEN [raised |-> FALSE, val |-> << >>, requests |-> << >>]
    ELSE [raised |-> CatchAll(TryFetch(api)).raised,
          val |-> CatchAll(TryFetch(api)).val,
          requests |-> << ApiRequest(cfg, limit) >>]

----------------------------------------------------------------------------
(* src/app/local_data.py: load_projects *)

\* load_projects(): [raised, val, error]. The parsed file is returned as it is,
\* and an error of json.load is not caught.
FileLoaded(loaded) ==
    IF loaded.ok THEN [raised |-> FALSE, val |-> loaded.val, error |-> ""]
    ELSE [raised |-> TRUE, val |-> PyNone, error |-> "JSONDecodeError"]

\* (variant) the file is never read
load_projects_never_read(file) ==
    [raised |-> FALSE, val |-> PyList(<< >>), error |-> ""]

load_projects(file) ==
    IF file = Absent THEN [raised |-> FALSE, val |-> PyList(<< >>), error |-> ""]
    ELSE FileLoaded(JsonLoadFile(file))

----------------------------------------------------------------------------
(* src/app/main.py: GET /projects and GET /htmx/projects/search *)

\* Python's a in b for two strings
Contains(a, b) ==
    \E i \in 0..(Len(b) - Len(a)) : SubSeq(b, i + 1, i + Len(a)) = a

\* search.lower() in text.lower(), or "raise" when text is not a str
LowerIn(search, text) ==
    IF text.kind # "str" THEN "raise"
    ELSE IF Contains(Lower(search), Lower(text.val)) THEN "yes" ELSE "no"

\* (variant) only the name is searched
ProjectMatches_name_only(search, project) ==
    IF project.kind # "obj" THEN "raise"
    ELSE LowerIn(search, DictGet(project, K_name, PyStr(<< >>)))

\* lines 74-75: the condition of the comprehension for one project; the
\* description is looked at only when the name does not match
ProjectMatches(search, project) ==
    IF project.kind # "obj" THEN "raise"
    ELSE IF LowerIn(search, DictGet(project, K_name, PyStr(<< >>))) # "no"
    THEN LowerIn(search, DictGet(project, K_name, PyStr(<< >>)))
    ELSE LowerIn(search, DictGet(project, K_description, PyStr(<< >>)))

\* lines 71-76: [raised, val], the projects kept
FilterProjects(search, all) ==
    IF ~Truthy(search) THEN [raised |-> FALSE, val |-> all]
    ELSE IF \E i \in 1..Len(all) : ProjectMatches(search.val, all[i]) = "raise"
    THEN [raised |-> TRUE, val |-> << >>]
    ELSE [raised |-> FALSE,
          val |-> SelectSeq(all, LAMBDA p : ProjectMatches(search.val, p) = "yes")]

\* (variant) the local projects are put first
MergeProjects_local_first(github_repos, local_projects) ==
    local_projects \o github_repos

\* line 69: github_repos + local_projects
MergeProjects(github_repos, local_projects) == github_repos \o local_projects

ServerError(text) == Response(500, "", text, << >>, << >>)

\* lines 59-63: what the handler holds after the call of the GitHub client
ReposFetched(got) ==
    IF got.raised
    THEN [repos |-> << >>, call |-> Call("get_repositories", << >>, "raised")]
    ELSE [repos |-> got.val,
          call |-> Returned("get_repositories", << >>, PyList(got.val))]

\* lines 59-63: the call of the GitHub client (limit = 10 by default); an
\* exception gives the empty list
FetchRepos(service, cfg, api) ==
    IF service = "RaisingStub"
    THEN ReposFetched([raised |-> TRUE, val |-> << >>])
    ELSE ReposFetched(get_repositories(cfg, 10, api))

\* lines 71-82, with the merged list filtered
PageOf(template, search, kept) ==
    IF kept.raised THEN ServerError("AttributeError")
    ELSE Response(200, template, "", kept.val,
                  IF Truthy(search) THEN search.val ELSE << >>)

\* lines 66-82, with the repositories fetched and the local file loaded
ListProjects(template, search, fetched, local) ==
    [calls |-> << fetched.call,
                  IF local.raised THEN Call("load_projects", << >>, "raised")
                  ELSE Returned("load_projects", << >>, local.val) >>,
     response |->
        IF local.raised THEN ServerError(local.error)
        ELSE IF local.val.kind # "arr" THEN ServerError("TypeError")
        ELSE PageOf(template, search,
                 FilterProjects(search, MergeProjects(fetched.repos, local.val.val)))]

\* projects(request, search) and htmx_projects_search(request, q): the calls
\* made and the response
projects(cfg, service, file, search, api) ==
    ListProjects("pages/projects.html", search,
                 FetchRepos(service, cfg, api), load_projects(file))

\* (variant) the HTMX search ignores its term
htmx_projects_search_unfiltered(cfg, service, file, q, api) ==
    ListProjects("components/project_list.html", PyStr(<< >>),
                 FetchRepos(service, cfg, api), load_projects(file))

htmx_projects_search(cfg, service, file, q, api) ==
    ListProjects("components/project_list.html", q,
                 FetchRepos(service, cfg, api), load_projects(file))

\* GET /projects?search=...
Projects(search, api) ==
    \E done \in {projects(settings, github_service, projects_file, search, api)} :
       /\ request' = [route |-> "GET /projects", search |-> search,
                      api |-> api]
       /\ calls' = done.calls
       /\ response' = done.response
       /\ UNCHANGED << settings, email_service, github_service, contacts_file,
                       projects_file, locale_files, database, inflight, outbox, last_save >>

\* GET /htmx/projects/search?q=...
HtmxProjectsSearch(q, api) ==
    \E done \in {htmx_projects_search(settings, github_service, projects_file,
                                      q, api)} :
       /\ request' = [route |-> "GET /htmx/projects/search", search |-> q,
                      api |-> api]
       /\ calls' = done.calls
       /\ response' = done.response
       /\ UNCHANGED << settings, email_service, github_service, contacts_file,
                       projects_file, locale_files, database, inflight, outbox, last_save >>

----------------------------------------------------------------------------
(* Direct calls of save_contact *)

\* settings as app/config.py leaves them with no environment set
DefaultSettings ==
    [github_username |-> PyNone, github_token |-> PyNone,
     smtp_host |-> << 115, 109, 116, 112, 46, 103, 109, 97, 105, 108, 46, 99,
                      111, 109 >>,
     smtp_port |-> 587, smtp_username |-> PyNone, smtp_password |-> PyNone,
     contact_email |-> PyNone]

\* static/locales without en.json and pt.json
NoLocales == [en |-> Absent, pt |-> Absent]

\* a database whose tables hold no row
NoDatabase == [projects |-> << >>, skills |-> << >>, experiences |-> << >>]

NoRequest == [route |-> "none"]
NoResponse == Response(0, "", "", << >>, << >>)

\* contacts files a call can find: none, one written by an earlier call, one
\* holding a record of another shape, an empty file, a JSON object, and text
\* that is not JSON ("no")
ExistingContactsFiles ==
    { Absent,
      JsonDumpFile(PyList(<< ContactRecord(S_Al, S_addr, S_hi) >>)),
      JsonDumpFile(PyList(<< PyDict(<< KV(K_name, PyNone) >>) >>)),
      << >>,
      << 123, 125 >>,
      << 110, 111 >> }

InitSave ==
    /\ settings = DefaultSettings
    /\ email_service = "EmailService"
    /\ github_service = "GitHubService"
    /\ contacts_file \in ExistingContactsFiles
    /\ projects_file = Absent
    /\ locale_files = NoLocales
    /\ database = NoDatabase
    /\ inflight = << >>
    /\ outbox = << >>
    /\ calls = << >>
    /\ request = NoRequest
    /\ response = NoResponse
    /\ last_save = NoSave

\* the log is followed until it holds MaxContacts records
NextSave ==
    /\ NumContacts(contacts_file) < MaxContacts
    /\ \E args \in SaveInputs, io \in IOFaults :
           SaveContactCall(args[1], args[2], args[3], io)

SpecSave == InitSave /\ [][NextSave]_vars

----------------------------------------------------------------------------
(* The contact form over HTTP *)

\* "MailHog", "u", "p", "me"
S_MailHog == << 77, 97, 105, 108, 72, 111, 103 >>
S_u  == << 117 >>
S_p  == << 112 >>
S_me == << 109, 101 >>

\* The e-mail settings followed: nothing configured; a full account on the
\* default host; the same without a password; MailHog with a recipient;
\* localhost:1025 without a recipient.
EmailSettings ==
    { DefaultSettings,
      [DefaultSettings EXCEPT !.smtp_username = PyStr(S_u),
                              !.smtp_password = PyStr(S_p),
                              !.contact_email = PyStr(S_me)],
      [DefaultSettings EXCEPT !.smtp_username = PyStr(S_u),
                              !.contact_email = PyStr(S_me)],
      [DefaultSettings EXCEPT !.smtp_host = S_MailHog, !.smtp_port = 1025,
                              !.contact_email = PyStr(S_me)],
      [DefaultSettings EXCEPT !.smtp_host = S_localhost, !.smtp_port = 1025] }

\* main.email_service is the EmailService built at import, or (as the unit
\* tests bind it) a service whose send_contact_email raises
EmailServices == {"EmailService", "RaisingStub"}

\* the forms posted: each field is missing or carries a non-empty text
ContactForms ==
    { [name |-> S_Al, email |-> S_addr, message |-> S_hi],
      [name |-> S_Al, email |-> S_addr, message |-> S_mixed],
      [name |-> S_Al, email |-> Missing, message |-> Missing],
      [name |-> Missing, email |-> S_addr, message |-> S_hi] }

Init ==
    /\ settings \in EmailSettings
    /\ email_service \in EmailServices
    /\ email_service = "RaisingStub" => settings = DefaultSettings
    /\ github_service = "GitHubService"
    /\ contacts_file \in
           { Absent, << >>,
             JsonDumpFile(PyList(<< ContactRecord(S_Al, S_addr, S_hi) >>)) }
    /\ projects_file = Absent
    /\ locale_files = NoLocales
    /\ database = NoDatabase
    /\ inflight = << >>
    /\ outbox = << >>
    /\ calls = << >>
    /\ request = NoRequest
    /\ response = NoResponse
    /\ last_save = NoSave

\* The response is handed to the client and the request is over: what the
\* handler held for it is dropped.
Respond ==
    /\ request # NoRequest
    /\ request' = NoRequest
    /\ response' = NoResponse
    /\ calls' = << >>
    /\ last_save' = NoSave
    /\ UNCHANGED << settings, email_service, github_service, contacts_file,
                    projects_file, locale_files, database, inflight, outbox >>

\* Requests are handled one at a time (the handlers never yield the event
\* loop), and the log is followed until it holds MaxContacts records.
HandleContact ==
    /\ request = NoRequest
    /\ NumContacts(contacts_file) < MaxContacts
    /\ \E form \in ContactForms, io \in IOFaults, fault \in SMTPFaults :
           ContactSubmit(form, io, fault)

Next == HandleContact \/ Respond

Spec == Init /\ [][Next]_vars

----------------------------------------------------------------------------
(* The project pages over HTTP *)

S_octocat == << 111, 99, 116, 111, 99, 97, 116 >>
S_py      == << 112, 121 >>
S_NOTE    == << 78, 79, 84, 69 >>

\* repositories of an API response: one with every field, a fork, and one
\* whose description and language are null
RepoPyApi ==
    PyDict(<< KV(K_name, PyStr(<< 80, 121, 65, 112, 105 >>)),
              KV(K_description, PyStr(<< 82, 69, 83, 84, 32, 116, 111, 111, 108 >>)),
              KV(K_html_url, PyStr(<< 103, 104, 47, 80, 121, 65, 112, 105 >>)),
              KV(K_homepage, PyStr(<< >>)),
              KV(K_language, PyStr(<< 80, 121, 116, 104, 111, 110 >>)),
              KV(K_topics, PyList(<< PyStr(<< 119, 101, 98 >>) >>)),
              KV(K_stars_count, PyInt(5)),
              KV(K_updated_at, PyStr(<< 50, 48, 50, 52 >>)),
              KV(K_fork, PyBool(FALSE)) >>)

RepoFork ==
    PyDict(<< KV(K_name, PyStr(<< 112, 121, 108, 105, 98 >>)),
              KV(K_description, PyStr(<< 97, 32, 102, 111, 114, 107 >>)),
              KV(K_html_url, PyStr(<< 103, 104, 47, 112, 121, 108, 105, 98 >>)),
              KV(K_fork, PyBool(TRUE)) >>)

RepoNotes ==
    PyDict(<< KV(K_name, PyStr(<< 78, 111, 116, 101, 115 >>)),
              KV(K_description, PyNone),
              KV(K_html_url, PyStr(<< 103, 104, 47, 78, 111, 116, 101, 115 >>)),
              KV(K_language, PyNone),
              KV(K_fork, PyBool(FALSE)) >>)

\* a repository without a name, which the transformation cannot format
RepoNameless ==
    PyDict(<< KV(K_html_url, PyStr(<< 103, 104, 47 >>)),
              KV(K_fork, PyBool(FALSE)) >>)

\* what the API answers to one request
ApiResponses ==
    { [ok |-> FALSE, repos |-> << >>],
      [ok |-> TRUE, repos |-> << RepoPyApi, RepoNameless >>],
      [ok |-> TRUE, repos |-> << >>],
      [ok |-> TRUE, repos |-> << RepoPyApi >>],
      [ok |-> TRUE, repos |-> << RepoFork, RepoPyApi >>],
      [ok |-> TRUE, repos |-> << RepoNotes, RepoFork, RepoPyApi >>] }

\* records of projects.json: one with both keys, one without a description,
\* one without a name
LocalSite == PyDict(<< KV(K_name, PyStr(<< 83, 105, 116, 101 >>)),
                       KV(K_description, PyStr(<< 80, 121, 116, 104, 111, 110, 32, 98, 108, 111, 103 >>)) >>)
LocalTool == PyDict(<< KV(K_name, PyStr(<< 84, 111, 111, 108 >>)) >>)
LocalAnon == PyDict(<< KV(K_description, PyStr(<< 112, 121, 32, 110, 111, 116, 101, 115 >>)) >>)

\* the lists projects.json is written from
ProjectLists ==
    { PyList(<< LocalSite, LocalTool, LocalAnon >>),
      PyList(<< LocalTool >>),
      PyList(<< >>) }

\* projects.json: none, a list of records written out, and text that is not
\* JSON ("invalid json")
ProjectsFiles ==
    { Absent, << 105, 110, 118, 97, 108, 105, 100, 32, 106, 115, 111, 110 >> }
        \cup { JsonDumpFile(list) : list \in ProjectLists }

\* the search parameter of GET /projects (None when not given) and the q
\* parameter of GET /htmx/projects/search ("" when not given)
Searches == { PyNone, PyStr(<< >>), PyStr(S_py), PyStr(S_NOTE) }
Queries  == Searches \ { PyNone }

GitHubServices == { "GitHubService", "RaisingStub" }

InitProjects ==
    /\ settings \in { DefaultSettings,
                      [DefaultSettings EXCEPT !.github_username = PyStr(S_octocat)],
                      [DefaultSettings EXCEPT !.github_username = PyStr(S_octocat),
                                              !.github_token = PyStr(S_py)] }
    /\ email_service = "EmailService"
    /\ github_service \in GitHubServices
    /\ github_service = "RaisingStub" => settings = DefaultSettings
    /\ contacts_file = Absent
    /\ projects_file \in ProjectsFiles
    /\ locale_files = NoLocales
    /\ database = NoDatabase
    /\ inflight = << >>
    /\ outbox = << >>
    /\ calls = << >>
    /\ request = NoRequest
    /\ response = NoResponse
    /\ last_save = NoSave

HandleProjects ==
    /\ request = NoRequest
    /\ \E search \in Searches, api \in ApiResponses : Projects(search, api)

HandleHtmxProjectsSearch ==
    /\ request = NoRequest
    /\ \E q \in Queries, api \in ApiResponses : HtmxProjectsSearch(q, api)

\* a direct call get_repositories(limit)
GetRepositories(limit, api) ==
    \E got \in {get_repositories(settings, limit, api)} :
       /\ request' = [route |-> "get_repositories", limit |-> limit, api |-> api]
       /\ calls' = [i \in 1..Len(got.requests) |->
                       Call("httpx.get", << got.requests[i] >>, "sent")]
                   \o << IF got.raised
                         THEN Call("get_repositories", << limit >>, "raised")
                         ELSE Returned("get_repositories", << limit >>,
                                       PyList(got.val)) >>
       /\ response' = NoResponse
       /\ UNCHANGED << settings, email_service, github_service, contacts_file,
                       projects_file, locale_files, database, inflight, outbox, last_save >>

\* the limits the service is called with: the default, and the home page's
Limits == { 10, 20 }

HandleGetRepositories ==
    /\ request = NoRequest
    /\ github_service = "GitHubService"
    /\ \E limit \in Limits, api \in ApiResponses : GetRepositories(limit, api)

\* a direct call _extract_technologies(repo)
ExtractTechnologies(repo) ==
    /\ request' = [route |-> "_extract_technologies", repo |-> repo]
    /\ calls' = << Returned("_extract_technologies", << repo >>,
                             PyStr(extract_technologies(repo))) >>
    /\ response' = NoResponse
    /\ UNCHANGED << settings, email_service, github_service, contacts_file,
                    projects_file, locale_files, database, inflight, outbox,
                    last_save >>

\* values of "language" and of "topics" in a repository of the API: the key
\* missing, null, empty, and one or two entries ("Python"; "web", "api")
NoKey == [kind |-> "missing", val |-> << >>]

LanguageValues ==
    { NoKey, PyNone, PyStr(<< >>), PyStr(<< 80, 121, 116, 104, 111, 110 >>) }

TopicValues ==
    { NoKey, PyNone, PyList(<< >>),
      PyList(<< PyStr(<< 119, 101, 98 >>) >>),
      PyList(<< PyStr(<< 119, 101, 98 >>), PyStr(<< 97, 112, 105 >>) >>),
      PyList(<< PyStr(<< 97, 112, 105 >>), PyStr(<< 119, 101, 98 >>) >>) }

\* the repository with these values (NoKey: the key is not there)
RepoWith(language, topics) ==
    PyDict((IF language = NoKey THEN << >>
            ELSE << KV(K_language, language) >>)
           \o (IF topics = NoKey THEN << >> ELSE << KV(K_topics, topics) >>))

HandleExtractTechnologies ==
    /\ request = NoRequest
    /\ github_service = "GitHubService"
    /\ \E language \in LanguageValues, topics \in TopicValues :
           ExtractTechnologies(RepoWith(language, topics))

NextProjects ==
    \/ HandleProjects
    \/ HandleHtmxProjectsSearch
    \/ HandleGetRepositories
    \/ HandleExtractTechnologies
    \/ Respond

SpecProjects == InitProjects /\ [][NextProjects]_vars

----------------------------------------------------------------------------
(* src/app/services/pdf.py: PDFService *)

S_en == << 101, 110 >>
S_pt == << 112, 116 >>

\* the keys read from a locale file, and the keys of the template data they
\* are put under: personal, summary, company, roles, education
LocaleKeys ==
    << << 112, 101, 114, 115, 111, 110, 97, 108 >>,
       << 115, 117, 109, 109, 97, 114, 121 >>,
       << 99, 111, 109, 112, 97, 110, 121 >>,
       << 114, 111, 108, 101, 115 >>,
       << 101, 100, 117, 99, 97, 116, 105, 111, 110 >> >>

\* personal_info, summary, company, experiences, education
TemplateKeys ==
    << << 112, 101, 114, 115, 111, 110, 97, 108, 95, 105, 110, 102, 111 >>,
       << 115, 117, 109, 109, 97, 114, 121 >>,
       << 99, 111, 109, 112, 97, 110, 121 >>,
       << 101, 120, 112, 101, 114, 105, 101, 110, 99, 101, 115 >>,
       << 101, 100, 117, 99, 97, 116, 105, 111, 110 >> >>

K_skills == << 115, 107, 105, 108, 108, 115 >>

\* lines 77-81
SkillsEn ==
    PyDict(<<
        \* "Programming Languages": Python, Go, C/C++, Bash, SQL
        KV(<< 80, 114, 111, 103, 114, 97, 109, 109, 105, 110, 103, 32, 76, 97,
           110, 103, 117, 97, 103, 101, 115 >>,
           PyList(<< PyStr(<< 80, 121, 116, 104, 111, 110 >>),
                     PyStr(<< 71, 111 >>),
                     PyStr(<< 67, 47, 67, 43, 43 >>),
                     PyStr(<< 66, 97, 115, 104 >>),
                     PyStr(<< 83, 81, 76 >>) >>)),
        \* "Cloud & Infrastructure": AWS, Kubernetes, Docker, Terraform, Helm
        KV(<< 67, 108, 111, 117, 100, 32, 38, 32, 73, 110, 102, 114, 97, 115,
           116, 114, 117, 99, 116, 117, 114, 101 >>,
           PyList(<< PyStr(<< 65, 87, 83 >>),
                     PyStr(<< 75, 117, 98, 101, 114, 110, 101, 116, 101, 115
                           >>),
                     PyStr(<< 68, 111, 99, 107, 101, 114 >>),
                     PyStr(<< 84, 101, 114, 114, 97, 102, 111, 114, 109 >>),
                     PyStr(<< 72, 101, 108, 109 >>) >>)),
        \* "Monitoring & Observability": Prometheus, Grafana, CloudWatch, Datadog, ELK Stack
        KV(<< 77, 111, 110, 105, 116, 111, 114, 105, 110, 103, 32, 38, 32, 79,
           98, 115, 101, 114, 118, 97, 98, 105, 108, 105, 116, 121 >>,
           PyList(<< PyStr(<< 80, 114, 111, 109, 101, 116, 104, 101, 117, 115
                           >>),
                     PyStr(<< 71, 114, 97, 102, 97, 110, 97 >>),
                     PyStr(<< 67, 108, 111, 117, 100, 87, 97, 116, 99, 104 >>),
                     PyStr(<< 68, 97, 116, 97, 100, 111, 103 >>),
                     PyStr(<< 69, 76, 75, 32, 83, 116, 97, 99, 107 >>) >>)),
        \* "Data & ML": MLOps, Data Pipelines, PostgreSQL, BigQuery, Scikit-learn
        KV(<< 68, 97, 116, 97, 32, 38, 32, 77, 76 >>,
           PyList(<< PyStr(<< 77, 76, 79, 112, 115 >>),
                     PyStr(<< 68, 97, 116, 97, 32, 80, 105, 112, 101, 108,
                           105, 110, 101, 115 >>),
                     PyStr(<< 80, 111, 115, 116, 103, 114, 101, 83, 81, 76 >>),
                     PyStr(<< 66, 105, 103, 81, 117, 101, 114, 121 >>),
                     PyStr(<< 83, 99, 105, 107, 105, 116, 45, 108, 101, 97,
                           114, 110 >>) >>)),
        \* "Tools & Methodologies": Git, Linux, CI/CD, SLI/SLO, Incident Response
        KV(<< 84, 111, 111, 108, 115, 32, 38, 32, 77, 101, 116, 104, 111, 100,
           111, 108, 111, 103, 105, 101, 115 >>,
           PyList(<< PyStr(<< 71, 105, 116 >>),
                     PyStr(<< 76, 105, 110, 117, 120 >>),
                     PyStr(<< 67, 73, 47, 67, 68 >>),
                     PyStr(<< 83, 76, 73, 47, 83, 76, 79 >>),
                     PyStr(<< 73, 110, 99, 105, 100, 101, 110, 116, 32, 82,
                           101, 115, 112, 111, 110, 115, 101 >>) >>)) >>)

\* lines 83-87
SkillsPt ==
    PyDict(<<
        \* "Linguagens de Programação": Python, Go, C/C++, Bash, SQL
        KV(<< 76, 105, 110, 103, 117, 97, 103, 101, 110, 115, 32, 100, 101,
           32, 80, 114, 111, 103, 114, 97, 109, 97, 231, 227, 111 >>,
           PyList(<< PyStr(<< 80, 121, 116, 104, 111, 110 >>),
                     PyStr(<< 71, 111 >>),
                     PyStr(<< 67, 47, 67, 43, 43 >>),
                     PyStr(<< 66, 97, 115, 104 >>),
                     PyStr(<< 83, 81, 76 >>) >>)),
        \* "Nuvem e Infraestrutura": AWS, Kubernetes, Docker, Terraform, Helm
        KV(<< 78, 117, 118, 101, 109, 32, 101, 32, 73, 110, 102, 114, 97, 101,
           115, 116, 114, 117, 116, 117, 114, 97 >>,
           PyList(<< PyStr(<< 65, 87, 83 >>),
                     PyStr(<< 75, 117, 98, 101, 114, 110, 101, 116, 101, 115
                           >>),
                     PyStr(<< 68, 111, 99, 107, 101, 114 >>),
                     PyStr(<< 84, 101, 114, 114, 97, 102, 111, 114, 109 >>),
                     PyStr(<< 72, 101, 108, 109 >>) >>)),
        \* "Monitoramento e Observabilidade": Prometheus, Grafana, CloudWatch, Datadog, ELK Stack
        KV(<< 77, 111, 110, 105, 116, 111, 114, 97, 109, 101, 110, 116, 111,
           32, 101, 32, 79, 98, 115, 101, 114, 118, 97, 98, 105, 108, 105,
           100, 97, 100, 101 >>,
           PyList(<< PyStr(<< 80, 114, 111, 109, 101, 116, 104, 101, 117, 115
                           >>),
                     PyStr(<< 71, 114, 97, 102, 97, 110, 97 >>),
                     PyStr(<< 67, 108, 111, 117, 100, 87, 97, 116, 99, 104 >>),
                     PyStr(<< 68, 97, 116, 97, 100, 111, 103 >>),
                     PyStr(<< 69, 76, 75, 32, 83, 116, 97, 99, 107 >>) >>)),
        \* "Dados e ML": MLOps, Pipelines de Dados, PostgreSQL, BigQuery, Scikit-learn
        KV(<< 68, 97, 100, 111, 115, 32, 101, 32, 77, 76 >>,
           PyList(<< PyStr(<< 77, 76, 79, 112, 115 >>),
                     PyStr(<< 80, 105, 112, 101, 108, 105, 110, 101, 115, 32,
                           100, 101, 32, 68, 97, 100, 111, 115 >>),
                     PyStr(<< 80, 111, 115, 116, 103, 114, 101, 83, 81, 76 >>),
                     PyStr(<< 66, 105, 103, 81, 117, 101, 114, 121 >>),
                     PyStr(<< 83, 99, 105, 107, 105, 116, 45, 108, 101, 97,
                           114, 110 >>) >>)),
        \* "Ferramentas e Metodologias": Git, Linux, CI/CD, SLI/SLO, Resposta a Incidentes
        KV(<< 70, 101, 114, 114, 97, 109, 101, 110, 116, 97, 115, 32, 101, 32,
           77, 101, 116, 111, 100, 111, 108, 111, 103, 105, 97, 115 >>,
           PyList(<< PyStr(<< 71, 105, 116 >>),
                     PyStr(<< 76, 105, 110, 117, 120 >>),
                     PyStr(<< 67, 73, 47, 67, 68 >>),
                     PyStr(<< 83, 76, 73, 47, 83, 76, 79 >>),
                     PyStr(<< 82, 101, 115, 112, 111, 115, 116, 97, 32, 97,
                           32, 73, 110, 99, 105, 100, 101, 110, 116, 101, 115
                           >>) >>)) >>)

\* (variant) the Portuguese headings only for "pt"
SkillsFor_pt_only(language) == IF language = S_pt THEN SkillsPt ELSE SkillsEn

\* lines 76-88
SkillsFor(language) == IF language = S_en THEN SkillsEn ELSE SkillsPt

\* PDFService._transform_locale_data(data, language): [raised, val, error]
transform_locale_data(data, language) ==
    IF data.kind # "obj"
    THEN [raised |-> TRUE, val |-> PyNone, error |-> "TypeError"]
    ELSE IF \E i \in 1..5 : ~DictHas(data, LocaleKeys[i])
    THEN [raised |-> TRUE, val |-> PyNone, error |-> "KeyError"]
    ELSE [raised |-> FALSE, error |-> "",
          val |-> PyDict(<< KV(K_language, PyStr(language)),
                            KV(TemplateKeys[1], DictGet(data, LocaleKeys[1], PyNone)),
                            KV(TemplateKeys[2], DictGet(data, LocaleKeys[2], PyNone)),
                            KV(TemplateKeys[3], DictGet(data, LocaleKeys[3], PyNone)),
                            KV(TemplateKeys[4], DictGet(data, LocaleKeys[4], PyNone)),
                            KV(K_skills, SkillsFor(language)),
                            KV(TemplateKeys[5], DictGet(data, LocaleKeys[5], PyNone)) >>)]

\* line 49: static/locales/{language}.json
LocaleFile(files, language) ==
    IF language = S_en THEN files.en
    ELSE IF language = S_pt THEN files.pt
    ELSE Absent

\* lines 53-56, with the file read
TransformLoaded(loaded, language) ==
    IF ~loaded.ok
    THEN [raised |-> TRUE, val |-> PyNone, error |-> "JSONDecodeError"]
    ELSE transform_locale_data(loaded.val, language)

\* lines 52-56: the body of the try
TryLocale(files, language) ==
    IF LocaleFile(files, language) = Absent
    THEN [raised |-> TRUE, val |-> PyNone, error |-> "FileNotFoundError"]
    ELSE TransformLoaded(JsonLoadFile(LocaleFile(files, language)), language)

\* one more call was made, for tried
AfterCall(tried, result) ==
    [raised |-> result.raised, val |-> result.val, error |-> result.error,
     tried |-> << tried >> \o result.tried]

\* (variant) no fallback
Fallback_none(files, language, attempt) ==
    [raised |-> attempt.raised, val |-> attempt.val, error |-> attempt.error,
     tried |-> << >>]

\* lines 57-66: both except clauses call _get_resume_data("en") unless the
\* language is "en", for which the error is raised again
RECURSIVE Fallback(_, _, _)
Fallback(files, language, attempt) ==
    IF attempt.raised /\ language # S_en
    THEN AfterCall(S_en, Fallback(files, S_en, TryLocale(files, S_en)))
    ELSE [raised |-> attempt.raised, val |-> attempt.val, error |-> attempt.error,
          tried |-> << >>]

\* PDFService._get_resume_data(language): [raised, val, error, tried], tried
\* the languages of the calls made, this one first
get_resume_data(files, language) ==
    AfterCall(language, Fallback(files, language, TryLocale(files, language)))

\* what generate_resume_pdf returns when it renders nothing
NoBytes == [format |-> "none", rendered |-> PyNone]

\* lines 29-43: the bytes weasyprint writes for the rendered template; they
\* are determined by the template data
PdfBytes(template_data) == [format |-> "pdf", rendered |-> template_data]

\* where rendering can fail: get_template (line 29) and write_pdf (line 40)
RenderFaults == { "none", "get_template", "write_pdf" }

\* lines 29-43, with the template data got
Rendered(data, fault) ==
    IF data.raised
    THEN [raised |-> TRUE, bytes |-> NoBytes, error |-> data.error,
          val |-> data.val, tried |-> data.tried]
    ELSE IF fault # "none"
    THEN [raised |-> TRUE, bytes |-> NoBytes, error |-> fault,
          val |-> data.val, tried |-> data.tried]
    ELSE [raised |-> FALSE, bytes |-> PdfBytes(data.val), error |-> "",
          val |-> data.val, tried |-> data.tried]

\* PDFService.generate_resume_pdf(language): [raised, bytes, error], with
\* the template data (val) and the calls of _get_resume_data (tried)
generate_resume_pdf(files, language, fault) ==
    Rendered(get_resume_data(files, language), fault)

----------------------------------------------------------------------------
(* src/app/main.py: GET /resume/download *)

\* a Response with a body, or the answer to an HTTPException (detail)
PdfResponse(status, detail, media_type, content, filename) ==
    [status |-> status, template |-> "", error |-> "", projects |-> << >>,
     search |-> << >>, detail |-> detail, media_type |-> media_type,
     content |-> content, filename |-> filename]

\* (variant) the case of the language is ignored
FilenameSuffix_any_case(language) ==
    IF Lower(language) = S_pt THEN "PT" ELSE "EN"

\* line 134: 'PT' if language == 'pt' else 'EN'
FilenameSuffix(language) == IF language = S_pt THEN "PT" ELSE "EN"

\* (variant) a failed generation is answered with an empty document
AnswerPdf_empty_document(language, generated) ==
    PdfResponse(200, << >>, "application/pdf", generated.bytes,
                << "Leonardo_Murakami_Resume_", FilenameSuffix(language), ".pdf" >>)

\* lines 133-145, with the generator called
AnswerPdf(language, generated) ==
    IF generated.raised
    THEN PdfResponse(500, << "Error generating PDF: ", generated.error >>, "",
                     NoBytes, << >>)
    ELSE PdfResponse(200, << >>, "application/pdf", generated.bytes,
                     << "Leonardo_Murakami_Resume_", FilenameSuffix(language),
                        ".pdf" >>)

\* the calls of _get_resume_data made, each ending as the first one does
ResumeDataCalls(data) ==
    [i \in 1..Len(data.tried) |->
        IF data.val = PyNone THEN Call("_get_resume_data", << data.tried[i] >>, "raised")
        ELSE Returned("_get_resume_data", << data.tried[i] >>, data.val)]

\* the call of the generator
GeneratorCall(language, generated) ==
    IF generated.raised
    THEN Call("generate_resume_pdf", << language >>, "raised")
    ELSE Returned("generate_resume_pdf", << language >>, generated.bytes)

\* download_resume_pdf(language): the calls made and the response
download_resume_pdf(files, language, fault) ==
    [calls |-> << GeneratorCall(language,
                                generate_resume_pdf(files, language, fault)) >>
               \o ResumeDataCalls(generate_resume_pdf(files, language, fault)),
     response |-> AnswerPdf(language, generate_resume_pdf(files, language, fault))]

\* line 123: language: str = "en"
LanguageOf(param) == IF param = Missing THEN S_en ELSE param

\* GET /resume/download?language=...
DownloadResumePdf(param, fault) ==
    \E done \in {download_resume_pdf(locale_files, LanguageOf(param), fault)} :
       /\ request' = [route |-> "GET /resume/download", language |-> param]
       /\ calls' = done.calls
       /\ response' = done.response
       /\ UNCHANGED << settings, email_service, github_service, contacts_file,
                       projects_file, locale_files, database, inflight, outbox, last_save >>

\* a direct call _get_resume_data(language)
GetResumeData(language) ==
    /\ request' = [route |-> "_get_resume_data", language |-> language]
    /\ calls' = ResumeDataCalls(get_resume_data(locale_files, language))
    /\ response' = NoResponse
    /\ UNCHANGED << settings, email_service, github_service, contacts_file,
                    projects_file, locale_files, database, inflight, outbox, last_save >>

\* a direct call _transform_locale_data(data, language)
TransformLocaleData(data, language) ==
    \E done \in {transform_locale_data(data, language)} :
       /\ request' = [route |-> "_transform_locale_data", data |-> data,
                      language |-> language]
       /\ calls' = << IF done.raised
                      THEN Call("_transform_locale_data", << language >>, "raised")
                      ELSE Returned("_transform_locale_data", << language >>,
                                    done.val) >>
       /\ response' = NoResponse
       /\ UNCHANGED << settings, email_service, github_service, contacts_file,
                       projects_file, locale_files, database, inflight, outbox, last_save >>

\* the contents of locale files: English, Portuguese, and one without roles
LocaleEn ==
    PyDict(<< KV(LocaleKeys[1], PyDict(<< KV(K_name, PyStr(<< 76, 101, 111 >>)) >>)),
              KV(LocaleKeys[2], PyStr(<< 69, 110, 103, 105, 110, 101, 101, 114 >>)),
              KV(LocaleKeys[3], PyStr(<< 65, 99, 109, 101 >>)),
              KV(LocaleKeys[4], PyList(<< PyStr(<< 83, 82, 69 >>), PyStr(<< 68, 101, 118 >>) >>)),
              KV(LocaleKeys[5], PyList(<< >>)) >>)

LocalePt ==
    PyDict(<< KV(LocaleKeys[1], PyDict(<< KV(K_name, PyStr(<< 76, 101, 111 >>)) >>)),
              KV(LocaleKeys[2], PyStr(<< 69, 110, 103, 101, 110, 104, 101, 105, 114, 111 >>)),
              KV(LocaleKeys[3], PyStr(<< 65, 99, 109, 101 >>)),
              KV(LocaleKeys[4], PyList(<< PyStr(<< 83, 82, 69 >>) >>)),
              KV(LocaleKeys[5], PyList(<< >>)) >>)

LocaleNoRoles ==
    PyDict(<< KV(LocaleKeys[1], PyNone),
              KV(LocaleKeys[2], PyStr(<< 82, 101, 115, 117, 109, 111 >>)),
              KV(LocaleKeys[3], PyStr(<< 65, 99, 109, 101 >>)),
              KV(LocaleKeys[5], PyList(<< >>)) >>)

\* static/locales: each of en.json and pt.json is missing, as written, not
\* JSON ("no"), or without the roles
LocaleDirs ==
    [en : { Absent, JsonDumpFile(LocaleEn), << 110, 111 >>,
            JsonDumpFile(LocaleNoRoles) },
     pt : { Absent, JsonDumpFile(LocalePt), << 110, 111 >>,
            JsonDumpFile(LocaleNoRoles) }]

\* the language parameter: not given, en, pt, fr, PT
LanguageParams == { Missing, S_en, S_pt, << 102, 114 >>, << 80, 84 >> }

InitResume ==
    /\ settings = DefaultSettings
    /\ email_service = "EmailService"
    /\ github_service = "GitHubService"
    /\ contacts_file = Absent
    /\ projects_file = Absent
    /\ locale_files \in LocaleDirs
    /\ database = NoDatabase
    /\ inflight = << >>
    /\ outbox = << >>
    /\ calls = << >>
    /\ request = NoRequest
    /\ response = NoResponse
    /\ last_save = NoSave

HandleDownloadResumePdf ==
    /\ request = NoRequest
    /\ \E param \in LanguageParams, fault \in RenderFaults :
           DownloadResumePdf(param, fault)

HandleGetResumeData ==
    /\ request = NoRequest
    /\ \E language \in LanguageParams \ { Missing } : GetResumeData(language)

HandleTransformLocaleData ==
    /\ request = NoRequest
    /\ \E data \in { LocaleEn, LocalePt, LocaleNoRoles, PyList(<< >>) },
          language \in LanguageParams \ { Missing } :
           TransformLocaleData(data, language)

NextResume ==
    \/ HandleDownloadResumePdf
    \/ HandleGetResumeData
    \/ HandleTransformLocaleData
    \/ Respond

SpecResume == InitResume /\ [][NextResume]_vars

----------------------------------------------------------------------------
(* Direct calls of EmailService *)

\* the settings of the contact form, MailHog with credentials, and the host
\* mailhog on another port
SmtpSettings ==
    EmailSettings \cup
    { [DefaultSettings EXCEPT !.smtp_host = S_MailHog, !.smtp_port = 1025,
                              !.smtp_username = PyStr(S_u),
                              !.smtp_password = PyStr(S_p),
                              !.contact_email = PyStr(S_me)],
      [DefaultSettings EXCEPT !.smtp_host = S_mailhog,
                              !.smtp_username = PyStr(S_u),
                              !.smtp_password = PyStr(S_p),
                              !.contact_email = PyStr(S_me)] }

\* a direct call send_contact_email(name, email, message)
SendContactEmail(args, fault) ==
    \E mail \in {send_contact_email(settings, args[1], args[2], args[3], fault)} :
       /\ request' = [route |-> "send_contact_email", args |-> args,
                      fault |-> fault]
       /\ calls' = << Call("send_contact_email", args,
                           IF mail.result THEN "True" ELSE "False") >>
                   \o SmtpCalls(mail.ops)
       /\ outbox' = outbox \o mail.sent
       /\ response' = NoResponse
       /\ UNCHANGED << settings, email_service, github_service, contacts_file,
                       projects_file, locale_files, database, inflight, last_save >>

\* a direct call send_notification_email(subject, content)
SendNotificationEmail(args, fault) ==
    \E mail \in {send_notification_email(settings, args[1], args[2], fault)} :
       /\ request' = [route |-> "send_notification_email", args |-> args,
                      fault |-> fault]
       /\ calls' = << Call("send_notification_email", args,
                           IF mail.result THEN "True" ELSE "False") >>
                   \o SmtpCalls(mail.ops)
       /\ outbox' = outbox \o mail.sent
       /\ response' = NoResponse
       /\ UNCHANGED << settings, email_service, github_service, contacts_file,
                       projects_file, locale_files, database, inflight, last_save >>

\* a direct call _create_smtp_connection()
CreateSmtpConnection(fault) ==
    \E conn \in {create_smtp_connection(settings, fault)} :
       /\ request' = [route |-> "_create_smtp_connection", fault |-> fault]
       /\ calls' = SmtpCalls(conn.ops)
                   \o << Call("_create_smtp_connection", << >>,
                              IF conn.raised THEN "raised" ELSE "returned") >>
       /\ response' = NoResponse
       /\ UNCHANGED << settings, email_service, github_service, contacts_file,
                       projects_file, locale_files, database, inflight, outbox, last_save >>

InitEmail ==
    /\ settings \in SmtpSettings
    /\ email_service = "EmailService"
    /\ github_service = "GitHubService"
    /\ contacts_file = Absent
    /\ projects_file = Absent
    /\ locale_files = NoLocales
    /\ database = NoDatabase
    /\ inflight = << >>
    /\ outbox = << >>
    /\ calls = << >>
    /\ request = NoRequest
    /\ response = NoResponse
    /\ last_save = NoSave

\* the outbox is followed until it holds MaxOutbox messages
HandleSendContactEmail ==
    /\ request = NoRequest
    /\ Len(outbox) < MaxOutbox
    /\ \E args \in SaveInputs, fault \in SMTPFaults : SendContactEmail(args, fault)

HandleSendNotificationEmail ==
    /\ request = NoRequest
    /\ Len(outbox) < MaxOutbox
    /\ \E fault \in SMTPFaults : SendNotificationEmail(<< S_hi, S_mixed >>, fault)

HandleCreateSmtpConnection ==
    /\ request = NoRequest
    /\ \E fault \in SMTPFaults : CreateSmtpConnection(fault)

NextEmail ==
    \/ HandleSendContactEmail
    \/ HandleSendNotificationEmail
    \/ HandleCreateSmtpConnection
    \/ Respond

SpecEmail == InitEmail /\ [][NextEmail]_vars

----------------------------------------------------------------------------
(* Concurrent GET /projects requests *)

\* A request is a coroutine of the event loop. The handler gives up the loop
\* at one place only, the await of line 60 (the HTTP request made by
\* get_repositories); lines 61-82 run without interruption.
Idle ==
    [pc |-> "idle", search |-> PyNone, github_repos |-> << >>,
     response |-> NoResponse]

\* line 56: the handler is entered and awaits the GitHub client
EnterProjects(r, search) ==
    /\ inflight[r].pc = "idle"
    /\ inflight' = [inflight EXCEPT ![r] = [Idle EXCEPT !.pc = "line 60",
                                                        !.search = search]]
    /\ UNCHANGED << settings, email_service, github_service, contacts_file,
                    projects_file, locale_files, database, outbox, calls, request,
                    response, last_save >>

\* lines 60-82: the client's request is answered and the handler runs to
\* its end
ResumeProjects(r, api) ==
    /\ inflight[r].pc = "line 60"
    /\ \E fetched \in {FetchRepos(github_service, settings, api)} :
         inflight' = [inflight EXCEPT ![r] =
            [pc |-> "done", search |-> inflight[r].search,
             github_repos |-> fetched.repos,
             response |-> ListProjects("pages/projects.html", inflight[r].search,
                                       fetched, load_projects(projects_file)).response]]
    /\ UNCHANGED << settings, email_service, github_service, contacts_file,
                    projects_file, locale_files, database, outbox, calls, request,
                    response, last_save >>

\* the response is sent and the coroutine ends
LeaveProjects(r) ==
    /\ inflight[r].pc = "done"
    /\ inflight' = [inflight EXCEPT ![r] = Idle]
    /\ UNCHANGED << settings, email_service, github_service, contacts_file,
                    projects_file, locale_files, database, outbox, calls, request,
                    response, last_save >>

InitConcurrent ==
    /\ settings = [DefaultSettings EXCEPT !.github_username = PyStr(S_octocat)]
    /\ email_service = "EmailService"
    /\ github_service = "GitHubService"
    /\ contacts_file = Absent
    /\ projects_file \in ProjectsFiles
    /\ locale_files = NoLocales
    /\ database = NoDatabase
    /\ inflight = [r \in 1..MaxInflight |-> Idle]
    /\ outbox = << >>
    /\ calls = << >>
    /\ request = NoRequest
    /\ response = NoResponse
    /\ last_save = NoSave

EnterSome ==
    \E r \in 1..MaxInflight, search \in { PyNone, PyStr(S_py) } :
        EnterProjects(r, search)

ResumeSome ==
    \E r \in 1..MaxInflight :
        \E api \in { a \in ApiResponses : a.ok /\ Len(a.repos) # 2 } :
            ResumeProjects(r, api)

LeaveSome == \E r \in 1..MaxInflight : LeaveProjects(r)

NextConcurrent == EnterSome \/ ResumeSome \/ LeaveSome

SpecConcurrent == InitConcurrent /\ [][NextConcurrent]_vars

----------------------------------------------------------------------------
(* Concurrent calls of save_contact: each call runs lines 18-25 of its own,  *)
(* nothing in local_data.py serialises two of them (no lock, no temporary   *)
(* file, no rename), so their reads and writes of contacts.json interleave  *)
(* at the system calls.                                                     *)

NotSaving ==
    [pc |-> "idle", args |-> << >>, contacts |-> PyList(<< >>),
     raised |-> FALSE]

\* what lines 19-23 leave in the local `contacts`, or the exception
ContactsRead(loaded, args) ==
    IF ~loaded.ok \/ loaded.val.kind # "arr"
    THEN [pc |-> "done", args |-> args, contacts |-> PyList(<< >>),
          raised |-> TRUE]
    ELSE [pc |-> "line 24", args |-> args, raised |-> FALSE,
          contacts |-> ListAppend(loaded.val,
                                  ContactRecord(args[1], args[2], args[3]))]

\* lines 18-23: the existing file is read and the record joins the local list
ReadExisting(w, args) ==
    /\ inflight[w].pc = "idle"
    /\ inflight' = [inflight EXCEPT ![w] =
                        ContactsRead(LoadContacts(contacts_file), args)]
    /\ UNCHANGED << settings, email_service, github_service, contacts_file,
                    projects_file, locale_files, database, outbox, calls, request,
                    response, last_save >>

\* line 24: open("w") creates the file or empties it
OpenForWriting(w) ==
    /\ inflight[w].pc = "line 24"
    /\ contacts_file' = << >>
    /\ inflight' = [inflight EXCEPT ![w].pc = "line 25"]
    /\ UNCHANGED << settings, email_service, github_service,
                    projects_file, locale_files, database, outbox, calls, request,
                    response, last_save >>

\* bytes written from offset 0 of a file that may have grown meanwhile
WriteAtStart(file, text) ==
    IF Len(file) <= Len(text) THEN text
    ELSE text \o SubSeq(file, Len(text) + 1, Len(file))

\* line 25: the array is written through the handle of line 24 and the file
\* is closed
WriteBack(w) ==
    /\ inflight[w].pc = "line 25"
    /\ contacts_file' = WriteAtStart(contacts_file,
                                     JsonDumpFile(inflight[w].contacts))
    /\ inflight' = [inflight EXCEPT ![w].pc = "done"]
    /\ UNCHANGED << settings, email_service, github_service,
                    projects_file, locale_files, database, outbox, calls, request,
                    response, last_save >>

InitConcurrentSave ==
    /\ settings = DefaultSettings
    /\ email_service = "EmailService"
    /\ github_service = "GitHubService"
    /\ contacts_file \in ExistingContactsFiles
    /\ projects_file = Absent
    /\ locale_files = NoLocales
    /\ database = NoDatabase
    /\ inflight = [w \in 1..MaxInflight |-> NotSaving]
    /\ outbox = << >>
    /\ calls = << >>
    /\ request = NoRequest
    /\ response = NoResponse
    /\ last_save = NoSave

ReadSome ==
    \E w \in 1..MaxInflight, args \in SaveInputs : ReadExisting(w, args)

OpenSome == \E w \in 1..MaxInflight : OpenForWriting(w)

WriteSome == \E w \in 1..MaxInflight : WriteBack(w)

NextConcurrentSave == ReadSome \/ OpenSome \/ WriteSome

SpecConcurrentSave == InitConcurrentSave /\ [][NextConcurrentSave]_vars

----------------------------------------------------------------------------
(* src/app/main.py: GET / (the home page) *)

\* (variant) every repository is shown
SampleSize_all(n) == n

\* line 37: min(3, len(github_repos))
SampleSize(n) == IF n < 3 THEN n ELSE 3

\* random.sample(population, k): k places of the population, no place
\* twice, in any order
Samples(n, k) ==
    { pick \in [1..k -> 1..n] : \A i, j \in 1..k : i # j => pick[i] # pick[j] }

\* line 33: the call of the GitHub client with limit=20
HomeFetch(service, cfg, api) ==
    IF service = "RaisingStub"
    THEN [raised |-> TRUE, repos |-> << >>,
          call |-> Call("get_repositories", << 20 >>, "raised")]
    ELSE [raised |-> FALSE, repos |-> get_repositories(cfg, 20, api).val,
          call |-> Returned("get_repositories", << 20 >>,
                            PyList(get_repositories(cfg, 20, api).val))]

\* lines 36-46, with the repositories fetched and the places random.sample
\* drew
HomePage(fetched, pick) ==
    [calls |-> << fetched.call >>,
     response |-> Response(200, "pages/home.html", "",
                           [i \in 1..Len(pick) |-> fetched.repos[pick[i]]],
                           << >>)]

\* GET /
Home(api) ==
    \E fetched \in {HomeFetch(github_service, settings, api)} :
      \E pick \in Samples(Len(fetched.repos), SampleSize(Len(fetched.repos))) :
        /\ request' = [route |-> "GET /", api |-> api]
        /\ calls' = HomePage(fetched, pick).calls
        /\ response' = HomePage(fetched, pick).response
        /\ UNCHANGED << settings, email_service, github_service, contacts_file,
                        projects_file, locale_files, database, inflight, outbox, last_save >>

\* two more repositories, with the names "Docs" and "Cli"
RepoDocs == PyDict(DictSet(RepoPyApi.val, K_name, PyStr(<< 68, 111, 99, 115 >>)))
RepoCli  == PyDict(DictSet(RepoPyApi.val, K_name, PyStr(<< 67, 108, 105 >>)))

\* answers of the API to the home page's request: those of the project
\* pages, and one with four repositories that are not forks
HomeApiResponses ==
    ApiResponses \cup
    { [ok |-> TRUE, repos |-> << RepoNotes, RepoDocs, RepoFork, RepoPyApi,
                                 RepoCli >>] }

HandleHome ==
    /\ request = NoRequest
    /\ \E api \in HomeApiResponses : Home(api)

NextHome == HandleHome \/ Respond

SpecHome == InitProjects /\ [][NextHome]_vars

----------------------------------------------------------------------------
(* src/scripts/seed_data.py: seed_database and clear_database. A row is     *)
(* [table, id]; the session's transaction is the committed tables and a     *)
(* working copy that INSERT and DELETE change, which COMMIT makes the       *)
(* committed tables and ROLLBACK throws away.                               *)

Tables == << "projects", "skills", "experiences" >>

\* create_sample_projects(), create_sample_skills() and
\* create_sample_experiences(), in the order their rows are added
SampleRows ==
    [i \in 1..(3 * MaxSampleRows) |->
        [table |-> Tables[((i - 1) \div MaxSampleRows) + 1],
         id |-> ((i - 1) % MaxSampleRows) + 1]]

\* the transaction of a new session
Begin(db) == [committed |-> db, working |-> db]

\* the first k of rows are inserted, one INSERT each
RECURSIVE InsertRows(_, _, _)
InsertRows(tx, rows, k) ==
    IF k = 0 THEN tx
    ELSE [committed |-> tx.committed,
          working |->
              [InsertRows(tx, rows, k - 1).working EXCEPT ![rows[k].table] =
                  Append(InsertRows(tx, rows, k - 1).working[rows[k].table],
                         rows[k])]]

\* db.query(T).delete() for the first k tables of the list
DeleteAll(tx, tables, k) ==
    [committed |-> tx.committed,
     working |-> [t \in DOMAIN tx.working |->
                     IF \E i \in 1..k : tables[i] = t THEN << >>
                     ELSE tx.working[t]]]

Commit(tx) == tx.working

\* (variant) every statement is committed as it is made
Rollback_autocommit(tx) == tx.working

\* db.rollback()
Rollback(tx) == tx.committed

\* where a run can fail: nowhere, at create_all, at a count query, at the
\* k-th INSERT of the flush, at the k-th DELETE, at COMMIT
SeedFaults ==
    { [at |-> a, k |-> 0] : a \in { "none", "create_all", "count", "commit" } }
    \cup { [at |-> "insert", k |-> k] : k \in 1..(3 * MaxSampleRows) }

ClearFaults ==
    { [at |-> a, k |-> 0] : a \in { "none", "commit" } }
    \cup { [at |-> "delete", k |-> k] : k \in 1..3 }

HasRows(db) == \E t \in DOMAIN db : Len(db[t]) > 0

\* seed_database(): [db, raised, skipped], the committed tables it leaves
seed_database(db, fault) ==
    IF fault.at = "create_all"
    THEN [db |-> db, raised |-> TRUE, skipped |-> FALSE]
    ELSE IF fault.at = "count"
    THEN [db |-> Rollback(Begin(db)), raised |-> TRUE, skipped |-> FALSE]
    ELSE IF HasRows(db)
    THEN [db |-> Rollback(Begin(db)), raised |-> FALSE, skipped |-> TRUE]
    ELSE IF fault.at = "insert"
    THEN [db |-> Rollback(InsertRows(Begin(db), SampleRows, fault.k - 1)),
          raised |-> TRUE, skipped |-> FALSE]
    ELSE IF fault.at = "commit"
    THEN [db |-> Rollback(InsertRows(Begin(db), SampleRows, Len(SampleRows))),
          raised |-> TRUE, skipped |-> FALSE]
    ELSE [db |-> Commit(InsertRows(Begin(db), SampleRows, Len(SampleRows))),
          raised |-> FALSE, skipped |-> FALSE]

\* clear_database(): experiences, skills and projects are emptied in one
\* transaction
clear_database(db, fault) ==
    IF fault.at = "delete"
    THEN [db |-> Rollback(DeleteAll(Begin(db),
                     << "experiences", "skills", "projects" >>, fault.k - 1)),
          raised |-> TRUE]
    ELSE IF fault.at = "commit"
    THEN [db |-> Rollback(DeleteAll(Begin(db),
                     << "experiences", "skills", "projects" >>, 3)),
          raised |-> TRUE]
    ELSE [db |-> Commit(DeleteAll(Begin(db),
                     << "experiences", "skills", "projects" >>, 3)),
          raised |-> FALSE]

\* a run of the script's seed_database()
SeedDatabase(fault) ==
    \E done \in {seed_database(database, fault)} :
       /\ database' = done.db
       /\ request' = [route |-> "seed_database", fault |-> fault,
                      before |-> database]
       /\ calls' = << Call("seed_database", << >>,
                           IF done.raised THEN "raised" ELSE "None") >>
       /\ response' = NoResponse
       /\ UNCHANGED << settings, email_service, github_service, contacts_file,
                       projects_file, locale_files, inflight, outbox, last_save >>

\* a run of the script's clear_database()
ClearDatabase(fault) ==
    \E done \in {clear_database(database, fault)} :
       /\ database' = done.db
       /\ request' = [route |-> "clear_database", fault |-> fault,
                      before |-> database]
       /\ calls' = << Call("clear_database", << >>,
                           IF done.raised THEN "raised" ELSE "None") >>
       /\ response' = NoResponse
       /\ UNCHANGED << settings, email_service, github_service, contacts_file,
                       projects_file, locale_files, inflight, outbox, last_save >>

\* a row that is not one of the samples
OtherRow(table) == [table |-> table, id |-> 0]

\* databases the script can find: each table empty or holding one row
InitialDatabases ==
    { [t \in DOMAIN NoDatabase |->
          IF t \in filled THEN << OtherRow(t) >> ELSE << >>] :
      filled \in SUBSET DOMAIN NoDatabase }

InitSeed ==
    /\ settings = DefaultSettings
    /\ email_service = "EmailService"
    /\ github_service = "GitHubService"
    /\ contacts_file = Absent
    /\ projects_file = Absent
    /\ locale_files = NoLocales
    /\ database \in InitialDatabases
    /\ inflight = << >>
    /\ outbox = << >>
    /\ calls = << >>
    /\ request = NoRequest
    /\ response = NoResponse
    /\ last_save = NoSave

\* the runs of the script follow one another
HandleSeedDatabase ==
    /\ request = NoRequest
    /\ \E fault \in SeedFaults : SeedDatabase(fault)

HandleClearDatabase ==
    /\ request = NoRequest
    /\ \E fault \in ClearFaults : ClearDatabase(fault)

NextSeed == HandleSeedDatabase \/ HandleClearDatabase \/ Respond

SpecSeed == InitSeed /\ [][NextSeed]_vars

----------------------------------------------------------------------------
(* Properties of the contacts log and of POST /contact *)

\* the records of a contacts file (none for a missing or unreadable file)
FileRecords(file) ==
    IF file = Absent THEN << >>
    ELSE LET loaded == JsonLoadFile(file) IN
         IF loaded.ok /\ loaded.val.kind = "arr" THEN loaded.val.val ELSE << >>

IsContactList(file) ==
    /\ file # Absent
    /\ LET loaded == JsonLoadFile(file) IN loaded.ok /\ loaded.val.kind = "arr"

SaveSucceeded == last_save.called /\ ~last_save.raised

LastArgsRecord ==
    ContactRecord(last_save.args[1], last_save.args[2], last_save.args[3])

\* C1: the contacts file is an append-only log. After every save_contact call
\* that returns, the file holds a JSON array: the records it held before the
\* call (none when it was absent), unchanged and in the same order, followed
\* by the one new record.
C1_AppendOnlyLog ==
    SaveSucceeded =>
        /\ IsContactList(contacts_file)
        /\ FileRecords(contacts_file)
             = FileRecords(last_save.before) \o << LastArgsRecord >>

\* a call that returned on a file that already held a record
C1_Witness ==
    /\ SaveSucceeded
    /\ last_save.before # Absent
    /\ Len(FileRecords(contacts_file)) = 2

\* C6: the record a returned save_contact call leaves last in the file has
\* exactly the keys name, email and message, and reading the file back gives
\* the argument strings unchanged, empty and non-ASCII ones included.
C6_RecordRoundTrip ==
    SaveSucceeded =>
        LET records == FileRecords(contacts_file)
            rec     == records[Len(records)]
        IN  /\ Len(records) > 0
            /\ rec.kind = "obj"
            /\ Len(rec.val) = 3
            /\ {rec.val[i].key : i \in 1..3} = {K_name, K_email, K_message}
            /\ DictGet(rec, K_name, PyNone) = PyStr(last_save.args[1])
            /\ DictGet(rec, K_email, PyNone) = PyStr(last_save.args[2])
            /\ DictGet(rec, K_message, PyNone) = PyStr(last_save.args[3])

\* a non-ASCII message with characters that need escaping was saved after a
\* record of three empty strings
C6_Witness ==
    /\ SaveSucceeded
    /\ last_save.args = << S_Al, S_addr, S_mixed >>
    /\ Len(FileRecords(contacts_file)) = 2
    /\ FileRecords(contacts_file)[1] = ContactRecord(<< >>, << >>, << >>)

IsContactPost == request.route = "POST /contact"

FormArgs == << request.form.name, request.form.email, request.form.message >>

AllPresent == \A i \in 1..3 : FormArgs[i] # Missing

CallsOf(fn) == {i \in 1..Len(calls) : calls[i].fn = fn}

\* the submission is the last record of the contacts log
Persisted ==
    /\ IsContactList(contacts_file)
    /\ Len(FileRecords(contacts_file)) > 0
    /\ FileRecords(contacts_file)[Len(FileRecords(contacts_file))]
         = ContactRecord(FormArgs[1], FormArgs[2], FormArgs[3])

\* the SMTP server accepted a message carrying the submission
Forwarded ==
    \E i \in 1..Len(outbox) :
        /\ outbox[i].name = FormArgs[1]
        /\ outbox[i].email = FormArgs[2]
        /\ outbox[i].message = FormArgs[3]

\* C2: a contact submission answered with the success component has been
\* persisted to the contacts log and forwarded by e-mail over SMTP.
C2_SuccessMeansSavedAndSent ==
    (IsContactPost /\ response.template = "components/contact_success.html")
        => (Persisted /\ Forwarded)

\* C3: for a submission with all three fields, contact_submit calls
\* save_contact exactly once with the submitted triple; when that call
\* returns it then calls send_contact_email exactly once with the same
\* triple (and not at all when it raises); and when neither raises the
\* answer is 200 with the success component.
C3_SaveThenSend ==
    (IsContactPost /\ AllPresent) =>
        /\ Cardinality(CallsOf("save_contact")) = 1
        /\ \A i \in CallsOf("save_contact") : calls[i].args = FormArgs
        /\ Cardinality(CallsOf("send_contact_email")) <= 1
        /\ \A j \in CallsOf("send_contact_email") :
              /\ calls[j].args = FormArgs
              /\ \A i \in CallsOf("save_contact") :
                    i < j /\ calls[i].outcome # "raised"
        /\ (\A i \in CallsOf("save_contact") : calls[i].outcome # "raised")
              => Cardinality(CallsOf("send_contact_email")) = 1
        /\ (\A i \in 1..Len(calls) : calls[i].outcome # "raised")
              => /\ response.status = 200
                 /\ response.template = "components/contact_success.html"

\* both calls returned and the success component was answered
C3_Witness ==
    /\ IsContactPost
    /\ AllPresent
    /\ response.template = "components/contact_success.html"
    /\ \E j \in CallsOf("send_contact_email") : calls[j].outcome = "True"

EmailServiceRaised ==
    \E j \in CallsOf("send_contact_email") : calls[j].outcome = "raised"

\* C4: when the e-mail service raises, the answer is still 200, with the
\* error component carrying the text of the exception, and the submission
\* is in the contacts log.
C4_EmailFailureAnswered ==
    (IsContactPost /\ EmailServiceRaised) =>
        /\ response.status = 200
        /\ response.template = "components/contact_error.html"
        /\ response.error = "Email service error"
        /\ Persisted

\* the e-mail service raised for a submission added to a log that held a record
C4_Witness ==
    /\ IsContactPost
    /\ EmailServiceRaised
    /\ Len(FileRecords(contacts_file)) = 2

\* C5: a POST /contact that lacks a field is answered 422 and changes
\* nothing: no call is made, the contacts file and the outbox stay as they were.
C5_IncompleteFormRejected ==
    [][ (request'.route = "POST /contact"
         /\ \E f \in {request'.form.name, request'.form.email, request'.form.message} :
               f = Missing)
        => /\ response'.status = 422
           /\ calls' = << >>
           /\ contacts_file' = contacts_file
           /\ outbox' = outbox ]_vars

\* a form with only a name was rejected while the log held a record
C5_Witness ==
    /\ IsContactPost
    /\ request.form.email = Missing
    /\ response.status = 422
    /\ Len(FileRecords(contacts_file)) = 1

----------------------------------------------------------------------------
(* Properties of GET /projects and GET /htmx/projects/search *)

IsProjectsPage == request.route = "GET /projects"

IsProjectsRequest ==
    request.route \in { "GET /projects", "GET /htmx/projects/search" }

\* the call of fn the handler made (each is made at most once)
TheCall(fn) == calls[CHOOSE i \in CallsOf(fn) : TRUE]

ClientRaised ==
    /\ CallsOf("get_repositories") # {}
    /\ TheCall("get_repositories").outcome = "raised"

\* the repositories the GitHub client returned to the handler
ReposReturned ==
    IF CallsOf("get_repositories") = {} \/ ClientRaised THEN << >>
    ELSE TheCall("get_repositories").value.val

\* the records of projects.json, in file order
LocalRecords == FileRecords(projects_file)

NoSearchTerm == request.search = PyNone \/ request.search = PyStr(<< >>)

ListShown == IsProjectsRequest /\ response.status = 200

\* the text under a key of a project, "" when the key is missing
TextOf(project, key) ==
    IF DictHas(project, key) /\ DictGet(project, key, PyNone).kind = "str"
    THEN DictGet(project, key, PyNone).val
    ELSE << >>

\* term is a substring of text, upper and lower case taken as equal
InIgnoringCase(term, text) ==
    \E from \in 1..(Len(text) + 1), to \in 0..Len(text) :
        /\ to - from + 1 = Len(term)
        /\ \A k \in 1..Len(term) :
               LowerChar(text[from + k - 1]) = LowerChar(term[k])

Matching(term, project) ==
    \/ InIgnoringCase(term, TextOf(project, K_name))
    \/ InIgnoringCase(term, TextOf(project, K_description))

\* the places of list whose project the request's term selects (all of them
\* when there is no term)
Selected(list) ==
    { i \in 1..Len(list) :
        NoSearchTerm \/ Matching(request.search.val, list[i]) }

\* shown is list reduced to the places in kept, in order
IsSublistAt(shown, list, kept) ==
    /\ Len(shown) = Cardinality(kept)
    /\ \A i \in kept : shown[Cardinality({ j \in kept : j <= i })] = list[i]

\* C7: when no search term is given, the list /projects shows is the
\* repositories the GitHub client returned, in the order returned, followed
\* by the records of projects.json in file order; none is dropped or moved.
C7_RemoteThenLocal ==
    (IsProjectsPage /\ NoSearchTerm /\ response.status = 200) =>
        response.projects = ReposReturned \o LocalRecords

\* both sources gave entries: two repositories and three local records
C7_Witness ==
    /\ IsProjectsPage /\ NoSearchTerm /\ response.status = 200
    /\ Len(ReposReturned) = 2
    /\ Len(LocalRecords) = 3
    /\ Len(response.projects) = 5

\* C8: with a non-empty search term, the list shown is the merged list
\* without the projects in which the term is a substring of neither the name
\* nor the description, case ignored and a missing key taken as "".
C8_SearchFilter ==
    (ListShown /\ ~NoSearchTerm) =>
        IsSublistAt(response.projects, ReposReturned \o LocalRecords,
                    Selected(ReposReturned \o LocalRecords))

\* "py" kept a repository by its name and local records by their
\* description ("Python blog"), and left out the record without description
C8_Witness ==
    /\ ListShown /\ request.search = PyStr(S_py)
    /\ response.projects = << FormatRepo(RepoPyApi), LocalSite, LocalAnon >>
    /\ LocalRecords = << LocalSite, LocalTool, LocalAnon >>

\* C10: a projects.json that exists and is not valid JSON is caught and
\* treated as empty: load_projects does not raise and the page is served
\* with no local project.
C10_InvalidFileIsEmpty ==
    (IsProjectsRequest /\ projects_file # Absent
       /\ ~JsonLoadFile(projects_file).ok) =>
        /\ TheCall("load_projects").outcome # "raised"
        /\ response.status = 200
        /\ IsSublistAt(response.projects, ReposReturned, Selected(ReposReturned))

\* C9: when the GitHub client raises, /projects and /htmx/projects/search
\* still answer 200, with the local projects only (filtered by the term).
C9_ClientFailureServesLocal ==
    (IsProjectsRequest /\ ClientRaised) =>
        /\ response.status = 200
        /\ IsSublistAt(response.projects, LocalRecords, Selected(LocalRecords))

----------------------------------------------------------------------------
(* Properties of load_projects *)

LoadReturned ==
    /\ CallsOf("load_projects") # {}
    /\ TheCall("load_projects").outcome = "returned"

\* C11: load_projects returns the empty list when projects.json does not
\* exist, and otherwise the contents the file was written from, unchanged;
\* and no step changes projects.json.
C11_LoadProjects ==
    /\ [](LoadReturned =>
            /\ projects_file = Absent
                 => TheCall("load_projects").value = PyList(<< >>)
            /\ \A list \in ProjectLists :
                 projects_file = JsonDumpFile(list)
                    => TheCall("load_projects").value = list)
    /\ [][projects_file' = projects_file]_vars

\* a file of three records was loaded
C11_Witness ==
    /\ LoadReturned
    /\ projects_file = JsonDumpFile(PyList(<< LocalSite, LocalTool, LocalAnon >>))
    /\ Len(TheCall("load_projects").value.val) = 3

----------------------------------------------------------------------------
(* Properties of GitHubService.get_repositories *)

IsGetRepositories == request.route = "get_repositories"

\* the repositories of the response whose fork flag is not true
NotForks(repos) ==
    { i \in 1..Len(repos) : DictGet(repos[i], K_fork, PyBool(FALSE)) # PyBool(TRUE) }

\* the response was received and every repository in it has a name and a URL
WellFormed(api) ==
    /\ api.ok
    /\ \A i \in 1..Len(api.repos) :
          DictHas(api.repos[i], K_name) /\ DictHas(api.repos[i], K_html_url)

\* record is the record of repo
RecordOf(record, repo) ==
    /\ DictGet(record, K_name, PyNone) = DictGet(repo, K_name, PyNone)
    /\ DictGet(record, K_github_url, PyNone) = DictGet(repo, K_html_url, PyNone)
    /\ DictGet(record, K_source, PyNone) = PyStr(S_github)

\* C12: with a username configured and a response received, get_repositories
\* returns one record per repository of the response that is not a fork, in
\* response order, each tagged source = "github": no fork is in the result
\* and no other repository is left out.
C12_NotForksInOrder ==
    (IsGetRepositories /\ Truthy(settings.github_username)
       /\ WellFormed(request.api)) =>
        /\ ~ClientRaised
        /\ Len(ReposReturned) = Cardinality(NotForks(request.api.repos))
        /\ \A i \in NotForks(request.api.repos) :
              RecordOf(ReposReturned[Cardinality({ j \in NotForks(request.api.repos) :
                                                      j <= i })],
                       request.api.repos[i])

\* a response of three repositories, the second a fork, gave two records
C12_Witness ==
    /\ IsGetRepositories
    /\ request.api.repos = << RepoNotes, RepoFork, RepoPyApi >>
    /\ Len(ReposReturned) = 2

SentRequests == CallsOf("httpx.get")

\* C13: get_repositories never raises. Without a username it returns the
\* empty list and sends no request; when the request, the status check or
\* the transformation of the response fails, it returns the empty list.
C13_NeverRaises ==
    IsGetRepositories =>
        /\ ~ClientRaised
        /\ ~Truthy(settings.github_username)
              => (ReposReturned = << >> /\ SentRequests = {})
        /\ ~WellFormed(request.api) => ReposReturned = << >>

\* a failed request and a response that could not be transformed, each with
\* a username configured
C13_Witness ==
    /\ IsGetRepositories
    /\ Truthy(settings.github_username)
    /\ SentRequests # {}
    /\ request.api.repos = << RepoPyApi, RepoNameless >>
    /\ ReposReturned = << >>

----------------------------------------------------------------------------
(* Properties of GET /resume/download and of PDFService *)

IsDownload == request.route = "GET /resume/download"

\* the language the handler works with
RequestedLanguage ==
    IF request.language = Missing THEN S_en ELSE request.language

GeneratorReturned ==
    \E i \in CallsOf("generate_resume_pdf") : calls[i].outcome = "returned"

GeneratorRaised ==
    \E i \in CallsOf("generate_resume_pdf") : calls[i].outcome = "raised"

\* C14: GET /resume/download calls the PDF generator exactly once, with the
\* requested language ("en" when none is given); when the generator
\* returns, the answer is 200 with media type application/pdf, the
\* generated bytes as body, and the file name ..._PT.pdf if and only if the
\* language is "pt", ..._EN.pdf otherwise.
C14_DownloadAnswersPdf ==
    IsDownload =>
        /\ Cardinality(CallsOf("generate_resume_pdf")) = 1
        /\ TheCall("generate_resume_pdf").args = << RequestedLanguage >>
        /\ GeneratorReturned =>
              /\ response.status = 200
              /\ response.media_type = "application/pdf"
              /\ response.content = TheCall("generate_resume_pdf").value
              /\ RequestedLanguage = S_pt =>
                    response.filename
                       = << "Leonardo_Murakami_Resume_", "PT", ".pdf" >>
              /\ RequestedLanguage # S_pt =>
                    response.filename
                       = << "Leonardo_Murakami_Resume_", "EN", ".pdf" >>

\* the Portuguese resume was downloaded
C14_Witness ==
    /\ IsDownload /\ GeneratorReturned
    /\ request.language = S_pt
    /\ response.filename[2] = "PT"
    /\ response.content.format = "pdf"

\* C15: when PDF generation raises, the answer is 500 with a detail that
\* starts with "Error generating PDF", and a 200 answer always carries the
\* document the generator returned.
C15_GenerationFailureIs500 ==
    IsDownload =>
        /\ GeneratorRaised =>
              /\ response.status = 500
              /\ response.detail[1] = "Error generating PDF: "
        /\ response.status = 200 =>
              /\ GeneratorReturned
              /\ response.content.format = "pdf"

\* write_pdf failed after the template data was got
C15_Witness ==
    /\ IsDownload /\ GeneratorRaised
    /\ response.status = 500
    /\ response.detail = << "Error generating PDF: ", "write_pdf" >>

IsGetResumeData == request.route = "_get_resume_data"

\* the locale file of a language can be loaded and transformed
Usable(file) ==
    /\ file # Absent
    /\ JsonLoadFile(file).ok
    /\ JsonLoadFile(file).val.kind = "obj"
    /\ \A i \in 1..5 : DictHas(JsonLoadFile(file).val, LocaleKeys[i])

\* the file of the language of the direct call (there is none but en, pt)
RequestedFile ==
    IF request.language = S_en THEN locale_files.en
    ELSE IF request.language = S_pt THEN locale_files.pt
    ELSE Absent

\* data is the template data of the English locale file
IsEnglishData(data) ==
    /\ DictGet(data, K_language, PyNone) = PyStr(S_en)
    /\ \A i \in 1..5 :
          DictGet(data, TemplateKeys[i], PyNone)
             = DictGet(JsonLoadFile(locale_files.en).val, LocaleKeys[i], PyNone)

\* C16: _get_resume_data falls back to English. When the file of a language
\* other than "en" is missing or cannot be loaded or transformed, the result
\* is the English data with language "en"; when the English file fails the
\* error propagates; at most one extra call is made.
C16_FallbackToEnglish ==
    IsGetResumeData =>
        /\ Len(calls) <= 2
        /\ (request.language # S_en /\ ~Usable(RequestedFile)
              /\ Usable(locale_files.en)) =>
              /\ calls[1].outcome = "returned"
              /\ IsEnglishData(calls[1].value)
              /\ Len(calls) = 2 /\ calls[2].args = << S_en >>
        /\ ~Usable(locale_files.en) /\ ~Usable(RequestedFile) =>
              calls[1].outcome = "raised"
        /\ (request.language = S_en /\ ~Usable(locale_files.en)) =>
              Len(calls) = 1

\* pt.json lacks the roles and the English data was returned
C16_Witness ==
    /\ IsGetResumeData
    /\ request.language = S_pt
    /\ locale_files.pt = JsonDumpFile(LocaleNoRoles)
    /\ calls[1].outcome = "returned"
    /\ IsEnglishData(calls[1].value)

IsTransform == request.route = "_transform_locale_data"

Headings(skills) == { skills.val[i].key : i \in 1..Len(skills.val) }

\* C17: the record _transform_locale_data returns has the language argument
\* as language, the locale data's personal, summary, company, roles and
\* education unchanged as personal_info, summary, company, experiences and
\* education, and the English skills headings if and only if the language
\* is "en", the Portuguese ones for every other language.
C17_TransformLocaleData ==
    (IsTransform /\ calls[1].outcome = "returned") =>
        /\ DictGet(calls[1].value, K_language, PyNone) = PyStr(request.language)
        /\ \A i \in 1..5 :
              DictGet(calls[1].value, TemplateKeys[i], PyNone)
                 = DictGet(request.data, LocaleKeys[i], PyNone)
        /\ request.language = S_en <=>
              Headings(DictGet(calls[1].value, K_skills, PyNone)) = Headings(SkillsEn)
        /\ request.language # S_en =>
              Headings(DictGet(calls[1].value, K_skills, PyNone)) = Headings(SkillsPt)

\* English data transformed for "fr"
C17_Witness ==
    /\ IsTransform /\ calls[1].outcome = "returned"
    /\ request.data = LocaleEn
    /\ request.language \notin { S_en, S_pt }
    /\ Headings(DictGet(calls[1].value, K_skills, PyNone)) = Headings(SkillsPt)

----------------------------------------------------------------------------
(* Properties of EmailService *)

IsSendCall == request.route = "send_contact_email"

IsConnectCall == request.route = "_create_smtp_connection"

\* the SMTP calls made, in order
SmtpOps ==
    [i \in 1..Cardinality({ j \in 1..Len(calls) : calls[j].outcome = "smtp" }) |->
        calls[CHOOSE j \in 1..Len(calls) :
                 /\ calls[j].outcome = "smtp"
                 /\ Cardinality({ k \in 1..j : calls[k].outcome = "smtp" }) = i].fn]

Performed(op) == \E i \in 1..Len(SmtpOps) : SmtpOps[i] = op

\* the server is MailHog: host "mailhog" or "localhost", case ignored, port 1025
MailHog ==
    /\ Lower(settings.smtp_host) \in { S_mailhog, S_localhost }
    /\ settings.smtp_port = 1025

IsSet(value) == value # PyNone /\ value.val # << >>

\* send_contact_email gives up before connecting
NotConfigured ==
    \/ ~IsSet(settings.contact_email)
    \/ ~MailHog /\ (~IsSet(settings.smtp_username) \/ ~IsSet(settings.smtp_password))

\* C18: send_contact_email never raises and returns a boolean. It returns
\* False without opening a connection when contact_email is unset, or when
\* the server is not MailHog and the username or the password is unset;
\* False when connecting or sending fails; True only after sendmail and
\* quit have both completed.
C18_SendReturnsBoolean ==
    IsSendCall =>
        /\ calls[1].fn = "send_contact_email"
        /\ calls[1].outcome \in { "True", "False" }
        /\ NotConfigured => (calls[1].outcome = "False" /\ SmtpOps = << >>)
        /\ (~NotConfigured /\ request.fault \in { "connect", "sendmail" })
              => calls[1].outcome = "False"
        /\ calls[1].outcome = "True" =>
              /\ Performed("sendmail") /\ Performed("quit")
              /\ request.fault \notin { "sendmail", "quit" }
              /\ Len(outbox) > 0 /\ outbox[Len(outbox)].message = request.args[3]

\* a second message was accepted and True returned after STARTTLS and login
C18_Witness ==
    /\ IsSendCall
    /\ calls[1].outcome = "True"
    /\ SmtpOps = << "connect", "starttls", "login", "sendmail", "quit" >>
    /\ Len(outbox) = 2

\* C19: _create_smtp_connection performs STARTTLS if and only if the server
\* is not MailHog, performs login only after STARTTLS and only when the
\* username and the password are both set, and never performs STARTTLS or
\* login for MailHog.
C19_StartTlsUnlessMailHog ==
    IsConnectCall =>
        /\ request.fault # "connect" => (Performed("starttls") <=> ~MailHog)
        /\ Performed("starttls") => ~MailHog
        /\ Performed("login") =>
              /\ IsSet(settings.smtp_username) /\ IsSet(settings.smtp_password)
              /\ \E i, j \in 1..Len(SmtpOps) :
                    i < j /\ SmtpOps[i] = "starttls" /\ SmtpOps[j] = "login"
        /\ MailHog => ~Performed("starttls") /\ ~Performed("login")

\* the host is mailhog on port 587, with credentials: STARTTLS, then login
C19_Witness ==
    /\ IsConnectCall
    /\ settings.smtp_host = S_mailhog /\ settings.smtp_port = 587
    /\ SmtpOps = << "connect", "starttls", "login" >>

----------------------------------------------------------------------------
(* Properties of concurrent GET /projects requests *)

\* the places of list whose project a search term selects (all of them when
\* there is none)
SelectedBy(search, list) ==
    { i \in 1..Len(list) :
        search = PyNone \/ search = PyStr(<< >>) \/ Matching(search.val, list[i]) }

\* C20: concurrent GET /projects requests do not interfere: under every
\* interleaving, each request completes with 200 and shows the list given
\* by the data sources and its own search term.
C20_ConcurrentRequests ==
    \A r \in 1..Len(inflight) :
        inflight[r].pc = "done" =>
            /\ inflight[r].response.status = 200
            /\ IsSublistAt(inflight[r].response.projects,
                           inflight[r].github_repos \o LocalRecords,
                           SelectedBy(inflight[r].search,
                                      inflight[r].github_repos \o LocalRecords))

----------------------------------------------------------------------------
(* Properties of the search filter *)

SourcesReturned ==
    /\ CallsOf("get_repositories") # {}
    /\ CallsOf("load_projects") # {}
    /\ TheCall("load_projects").outcome # "raised"

\* C21: for every search term and every project record get_repositories or
\* load_projects can produce, a repository whose description is null
\* included, the search filter of /projects and /htmx/projects/search does
\* not raise and the request is answered with 200.
C21_FilterNeverRaises ==
    (IsProjectsRequest /\ SourcesReturned /\ ~NoSearchTerm) =>
        response.status = 200

----------------------------------------------------------------------------
(* Properties of concurrent save_contact calls *)

AllSaved ==
    \A w \in DOMAIN inflight :
        inflight[w].pc = "done" /\ ~inflight[w].raised

InFile(record) ==
    \E i \in 1..Len(FileRecords(contacts_file)) :
        FileRecords(contacts_file)[i] = record

\* C22: when concurrent save_contact calls on the same contacts file have
\* all returned, whatever the interleaving of their reads and writes, the
\* file holds the new record of each call and every earlier record a call
\* read (no lost update).
C22_NoLostUpdate ==
    AllSaved =>
        \A w \in DOMAIN inflight :
            \A i \in 1..Len(inflight[w].contacts.val) :
                InFile(inflight[w].contacts.val[i])

----------------------------------------------------------------------------
(* Properties of a failed save_contact call *)

\* C23: when a save_contact call fails at any step (reading or parsing the
\* existing file, opening it for writing, writing the new array), every
\* record the contacts file held before the call is still in it afterwards.
C23_FailedSaveKeepsRecords ==
    (last_save.called /\ last_save.raised) =>
        /\ Len(FileRecords(last_save.before)) <= Len(FileRecords(contacts_file))
        /\ \A i \in 1..Len(FileRecords(last_save.before)) :
               FileRecords(contacts_file)[i] = FileRecords(last_save.before)[i]

----------------------------------------------------------------------------
(* Properties of the order of saving and sending *)

SaveRaised == last_save.called /\ last_save.raised

EmailAttempted ==
    \E i \in 1..Len(calls) : calls[i].fn \notin { "save_contact" }

\* C24: when save_contact raises while a submission is handled, no e-mail is
\* sent for it (the e-mail service is not called, no SMTP operation is made,
\* the outbox stays as it was) and the answer is the error component; an
\* e-mail is only sent for a submission that save_contact wrote to the log
\* first.
C24_SentOnlyAfterSaved ==
    /\ [][ request'.route = "POST /contact" =>
             /\ SaveRaised' =>
                   /\ ~EmailAttempted'
                   /\ outbox' = outbox
                   /\ response'.template = "components/contact_error.html"
             /\ outbox' # outbox => EmailAttempted' ]_vars
    /\ []((IsContactPost /\ EmailAttempted) =>
            /\ calls[1].fn = "save_contact"
            /\ calls[1].outcome = "None"
            /\ calls[1].args = FormArgs
            /\ Persisted)

\* save_contact raised for a submission made after one that was sent, and
\* the error component was answered
C24_Witness ==
    /\ IsContactPost
    /\ SaveRaised
    /\ response.template = "components/contact_error.html"
    /\ Len(outbox) = 1

----------------------------------------------------------------------------
(* Properties of the SMTP connection's end *)

IsNotifyCall == request.route = "send_notification_email"

\* the call opened a connection: smtplib.SMTP(host, port) returned
ConnectionOpened ==
    /\ IsSendCall \/ IsNotifyCall
    /\ Performed("connect")
    /\ request.fault # "connect"

\* C25: every SMTP connection opened by send_contact_email or
\* send_notification_email is closed with quit before the call returns, on
\* the success path and on every failure path (STARTTLS, login or sendmail
\* failing).
C25_ConnectionClosed == ConnectionOpened => Performed("quit")

----------------------------------------------------------------------------
(* Properties of the downloaded resume's language *)

\* the language of the resume rendered into the document of the answer
RenderedLanguage == DictGet(response.content.rendered, K_language, PyNone).val

\* C26: for every language passed to GET /resume/download, the suffix of the
\* attachment's file name (PT or EN) is the language of the resume rendered
\* into the PDF, also when the locale file asked for is missing and the
\* content falls back to English, and when a locale other than en or pt is
\* asked for.
C26_SuffixIsRenderedLanguage ==
    (IsDownload /\ response.status = 200) =>
        \/ response.filename[2] = "PT" /\ RenderedLanguage = S_pt
        \/ response.filename[2] = "EN" /\ RenderedLanguage = S_en

----------------------------------------------------------------------------
(* Properties of the two search handlers *)

\* the term as the other handler receives it (q is "" when not given)
TermForHtmx == IF request.search = PyNone THEN PyStr(<< >>) ELSE request.search

\* what the other of the two handlers answers to the same term with the
\* same sources
OtherHandler ==
    IF IsProjectsPage
    THEN htmx_projects_search(settings, github_service, projects_file,
                              TermForHtmx, request.api)
    ELSE projects(settings, github_service, projects_file, request.search,
                  request.api)

SameList(other) ==
    /\ other.response.status = response.status
    /\ other.response.projects = response.projects

\* C27: the full-page search (/projects?search=s) and the HTMX search
\* (/htmx/projects/search?q=s) compute the same project list for the same
\* term and the same source data, and with an empty term both return the
\* merged list unfiltered.
C27_SameListOnBothRoutes ==
    IsProjectsRequest =>
        /\ SameList(OtherHandler)
        /\ (NoSearchTerm /\ response.status = 200) =>
              response.projects = ReposReturned \o LocalRecords

\* the HTMX search kept some of the merged projects and dropped others
C27_Witness ==
    /\ request.route = "GET /htmx/projects/search"
    /\ request.search = PyStr(S_py)
    /\ response.status = 200
    /\ Len(response.projects) > 0
    /\ Len(response.projects) < Len(ReposReturned \o LocalRecords)

----------------------------------------------------------------------------
(* Properties of the home page *)

IsHome == request.route = "GET /"

\* shown is made of the projects at pairwise distinct places of list
DrawnFrom(shown, list) ==
    \E place \in [1..Len(shown) -> 1..Len(list)] :
        /\ \A i, j \in 1..Len(shown) : i # j => place[i] # place[j]
        /\ \A i \in 1..Len(shown) : shown[i] = list[place[i]]

\* C28: the home page calls get_repositories(limit=20) and shows exactly
\* min(3, n) projects, at pairwise distinct places of the n repositories
\* returned; when the fetch raises or returns nothing it shows no project;
\* in every case the answer is 200.
C28_HomeShowsSample ==
    IsHome =>
        /\ response.status = 200
        /\ response.template = "pages/home.html"
        /\ Cardinality(CallsOf("get_repositories")) = 1
        /\ TheCall("get_repositories").args = << 20 >>
        /\ Len(response.projects) = IF Len(ReposReturned) < 3
                                    THEN Len(ReposReturned) ELSE 3
        /\ DrawnFrom(response.projects, ReposReturned)
        /\ (ClientRaised \/ ReposReturned = << >>) => response.projects = << >>

\* three of four repositories are shown, the last of them first
C28_Witness ==
    /\ IsHome
    /\ Len(ReposReturned) = 4
    /\ Len(response.projects) = 3
    /\ response.projects[1] = ReposReturned[4]

----------------------------------------------------------------------------
(* Properties of seed_database *)

IsSeed == request.route = "seed_database"

SeedRaised == calls[1].outcome = "raised"

\* the sample rows of a table, in the order they are added
SamplesOf(table) == SelectSeq(SampleRows, LAMBDA row : row.table = table)

\* every table holds what it held before the run followed by its samples
AllInserted ==
    \A t \in DOMAIN database : database[t] = request.before[t] \o SamplesOf(t)

NothingInserted == database = request.before

\* C29: seed_database is idempotent and atomic. When one of the three
\* tables already holds a row it inserts nothing, so a second run in a row
\* leaves the rows of the first; a run that fails part-way is rolled back,
\* so the sample rows are inserted all together or not at all.
C29_SeedOnceAllOrNothing ==
    IsSeed =>
        /\ HasRows(request.before) => NothingInserted
        /\ SeedRaised => NothingInserted
        /\ NothingInserted \/ AllInserted
        /\ ~SeedRaised =>
              /\ HasRows(database)
              /\ seed_database(database, [at |-> "none", k |-> 0]).db = database

\* the third INSERT of a run on an empty database failed and no row is left
C29_Witness ==
    /\ IsSeed
    /\ request.fault = [at |-> "insert", k |-> 3]
    /\ request.before = NoDatabase
    /\ SeedRaised
    /\ database = NoDatabase

----------------------------------------------------------------------------
(* Properties of _extract_technologies *)

IsExtract == request.route = "_extract_technologies"

\* the string returned
Technologies == TheCall("_extract_technologies").value.val

\* the repository's language when it is a non-empty string, and its topics
PrimaryLanguage ==
    IF DictHas(request.repo, K_language)
       /\ DictGet(request.repo, K_language, PyNone).kind = "str"
       /\ DictGet(request.repo, K_language, PyNone).val # << >>
    THEN << DictGet(request.repo, K_language, PyNone).val >>
    ELSE << >>

TopicsGiven ==
    IF DictHas(request.repo, K_topics)
       /\ DictGet(request.repo, K_topics, PyNone).kind = "arr"
    THEN [i \in 1..Len(DictGet(request.repo, K_topics, PyNone).val) |->
             DictGet(request.repo, K_topics, PyNone).val[i].val]
    ELSE << >>

\* where the i-th of parts starts in their joining with a two-character
\* separator
RECURSIVE StartOf(_, _)
StartOf(parts, i) ==
    IF i = 1 THEN 1 ELSE StartOf(parts, i - 1) + Len(parts[i - 1]) + 2

\* text is parts, in order, with ", " between neighbours and nothing else
IsJoined(text, parts) ==
    IF parts = << >> THEN text = << >>
    ELSE /\ Len(text) = StartOf(parts, Len(parts)) + Len(parts[Len(parts)]) - 1
         /\ \A i \in 1..Len(parts) :
               SubSeq(text, StartOf(parts, i),
                      StartOf(parts, i) + Len(parts[i]) - 1) = parts[i]
         /\ \A i \in 2..Len(parts) :
               SubSeq(text, StartOf(parts, i) - 2, StartOf(parts, i) - 1)
                  = << 44, 32 >>

\* C30: _extract_technologies returns the repository's primary language
\* (when it is not empty) followed by its topics in the order given, joined
\* by ", "; the empty string when the repository has neither; a null
\* language contributes nothing.
C30_ExtractTechnologies ==
    IsExtract =>
        /\ IsJoined(Technologies, PrimaryLanguage \o TopicsGiven)
        /\ (PrimaryLanguage = << >> /\ TopicsGiven = << >>) =>
              Technologies = << >>

\* "Python, api, web" was returned for the language Python and the topics
\* api and web
C30_Witness ==
    /\ IsExtract
    /\ Technologies = << 80, 121, 116, 104, 111, 110, 44, 32, 97, 112, 105,
                         44, 32, 119, 101, 98 >>

====
